---- MODULE Spec2Model ----
(***************************************************************************)
(* Shadow Query Analyzer, ChatGPT content script (src/chatgpt-content.js). *)
(*                                                                         *)
(* The extractor reads a conversation document (a tree of message nodes),  *)
(* collects hidden and visible search queries and citations per node,      *)
(* groups them under the user prompt found by walking parent links, and    *)
(* deduplicates them.  extract() wraps that in two fetches and an error    *)
(* taxonomy.                                                               *)
(*                                                                         *)
(* JavaScript values are tagged records:                                   *)
(*   [t |-> "undef"], [t |-> "null"], [t |-> "bool", b |-> ..],            *)
(*   [t |-> "num", n |-> ..], [t |-> "str", s |-> <<units>>],              *)
(*   [t |-> "arr", a |-> <<values>>], [t |-> "obj", o |-> [key |-> value]] *)
(* A string is a sequence of units.  A unit is one character, or a whole   *)
(* literal of the program ("user", "Citation", "(unknown prompt)") that no *)
(* operation of the program looks inside.  " " is the whitespace unit.     *)
(* A string that is the serialisation of a value v carries it as json.     *)
(***************************************************************************)
EXTENDS Integers, Sequences, FiniteSets, TLC

VARIABLES
    pc,                \* position of extract(): "idle", "awaitSession", "awaitConversation", "done"
    pathname,          \* window.location.pathname, a sequence of path segments
    conversationId,    \* this.conversationId
    accessToken,       \* this.accessToken
    conversationData,  \* the document fetchConversation resolved to
    queryResults,      \* what parseConversation returned (or that it threw)
    result,            \* the value extract() resolved to
    history,           \* the calls of parseConversation so far: <<[data, parsed]>>
    call,              \* a single call of one helper method: [fn, arg, out]
    background,        \* the service worker's stores and badges, the browser's tabs
                       \* and the messages not yet delivered to the service worker
    popup,             \* the popup: what it shows and where its methods stand
    requests           \* the extractions running side by side in the content script

vars == <<pc, pathname, conversationId, accessToken, conversationData, queryResults, result,
          history, call, background, popup, requests>>

-----------------------------------------------------------------------------
(* JavaScript values *)

Undef == [t |-> "undef"]
Null == [t |-> "null"]
Bool(b) == [t |-> "bool", b |-> b]
Num(n) == [t |-> "num", n |-> n]
Str(s) == [t |-> "str", s |-> s]
Lit(u) == [t |-> "str", s |-> <<u>>]
Arr(a) == [t |-> "arr", a |-> a]
Obj(o) == [t |-> "obj", o |-> o]
EmptyObj == [t |-> "obj", o |-> <<>>]
EmptyStr == Str(<<>>)
\* JSON.stringify(v): a non-empty string that JSON.parse turns back into v.
JsonText(v) == [t |-> "str", s |-> <<"json">>, json |-> v]

\* ToBoolean
Truthy(v) ==
    CASE v.t = "undef" -> FALSE
      [] v.t = "null" -> FALSE
      [] v.t = "bool" -> v.b
      [] v.t = "num" -> v.n # 0
      [] v.t = "str" -> v.s # <<>>
      [] OTHER -> TRUE

\* a || b
Or(a, b) == IF Truthy(a) THEN a ELSE b

\* v is null or undefined: reading a property of it raises TypeError
Nullish(v) == v.t \in {"undef", "null"}

\* v.k for a v that is not nullish
Get(v, k) == IF v.t = "obj" /\ k \in DOMAIN v.o THEN v.o[k] ELSE Undef

\* v?.k
OptGet(v, k) == IF Nullish(v) THEN Undef ELSE Get(v, k)

\* typeof v === 'object'
TypeofObject(v) == v.t \in {"obj", "arr", "null"}

\* Array.isArray(v)
IsArray(v) == v.t = "arr"

\* for (const x of v) raises TypeError unless v is an array or a string
Iterable(v) == v.t \in {"arr", "str"}

\* the items for..of yields
Items(v) ==
    IF v.t = "arr" THEN v.a
    ELSE IF v.t = "str" THEN [i \in 1..Len(v.s) |-> Str(<<v.s[i]>>)]
    ELSE <<>>

\* JSON.parse(x): ok = FALSE stands for the SyntaxError
JSONParse(x) ==
    IF "json" \in DOMAIN x THEN [ok |-> TRUE, v |-> x.json] ELSE [ok |-> FALSE, v |-> Undef]

-----------------------------------------------------------------------------
(* Strings *)

RECURSIVE TrimStart(_)
TrimStart(s) == IF s # <<>> /\ Head(s) = " " THEN TrimStart(Tail(s)) ELSE s

RECURSIVE TrimEnd(_)
TrimEnd(s) ==
    IF s # <<>> /\ s[Len(s)] = " " THEN TrimEnd(SubSeq(s, 1, Len(s) - 1)) ELSE s

\* String.prototype.trim
Trim(s) == TrimEnd(TrimStart(s))

LowerUnit(u) ==
    CASE u = "Q" -> "q"
      [] u = "R" -> "r"
      [] u = "P" -> "p"
      [] OTHER -> u

\* a comparison that forgets to fold case
KeepCase(s) == s

\* String.prototype.toLowerCase
ToLowerCase(s) == [i \in 1..Len(s) |-> LowerUnit(s[i])]

\* Array.prototype.join(' ') over a sequence of strings
RECURSIVE JoinSpace(_)
JoinSpace(ss) ==
    IF ss = <<>> THEN <<>>
    ELSE IF Len(ss) = 1 THEN ss[1]
    ELSE ss[1] \o <<" ">> \o JoinSpace(Tail(ss))

RECURSIVE Flatten(_)
Flatten(seqs) == IF seqs = <<>> THEN <<>> ELSE Head(seqs) \o Flatten(Tail(seqs))

-----------------------------------------------------------------------------
(* Bounds of the model *)

\* most finding nodes in a generated conversation
MaxFindNodes == 2
\* most entries in a generated query list or citation list
MaxList == 2
\* most ancestor nodes in a generated parent graph
MaxChain == 2
\* iterations after which the model stops an ancestor walk that has not ended
WalkCap == 8

-----------------------------------------------------------------------------
(* normalizeQueryField, extractQueryStrings *)

\* a normaliser that knows flat sequences only
ArraysOnly(field) == IF IsArray(field) THEN field.a ELSE <<>>

\* normalizeQueryField(field): the flat sequence of raw entries
normalizeQueryField(field) ==
    IF ~Truthy(field) THEN <<>>
    ELSE IF IsArray(field) THEN field.a
    ELSE IF Truthy(Get(field, "queries")) /\ IsArray(Get(field, "queries"))
        THEN Get(field, "queries").a
    ELSE IF Truthy(Get(field, "items")) /\ IsArray(Get(field, "items"))
        THEN Get(field, "items").a
    ELSE <<>>

\* q.text || q.query || q.q || q.search_query || ''
QueryCandidate(q) ==
    Or(Or(Or(Or(Get(q, "text"), Get(q, "query")), Get(q, "q")), Get(q, "search_query")),
       EmptyStr)

\* the first branch of the loop body: typeof q === 'string' && q.trim()
IsQueryString(q) == q.t = "str" /\ Trim(q.s) # <<>>

\* the second branch: q && typeof q === 'object'
IsQueryObject(q) == ~IsQueryString(q) /\ Truthy(q) /\ TypeofObject(q)

\* text.trim() raises TypeError when the candidate is not a string
QueryEntryThrows(q) == IsQueryObject(q) /\ QueryCandidate(q).t # "str"

\* what one entry pushes
QueryEntryStrings(q) ==
    IF IsQueryString(q) THEN <<Trim(q.s)>>
    ELSE IF IsQueryObject(q) /\ QueryCandidate(q).t = "str"
            /\ Trim(QueryCandidate(q).s) # <<>>
        THEN <<Trim(QueryCandidate(q).s)>>
    ELSE <<>>

\* extractQueryStrings(arr) raises
extractQueryStringsThrows(arr) == \E i \in 1..Len(arr) : QueryEntryThrows(arr[i])

\* extractQueryStrings(arr) when it does not raise
extractQueryStrings(arr) == Flatten([i \in 1..Len(arr) |-> QueryEntryStrings(arr[i])])

\* extractQueryStrings(normalizeQueryField(field)) as [threw, v]
QueryField(field) ==
    [threw |-> extractQueryStringsThrows(normalizeQueryField(field)),
     v |-> extractQueryStrings(normalizeQueryField(field))]

-----------------------------------------------------------------------------
(* extractCitations *)

Cand(title, url, type) == [title |-> title, url |-> url, type |-> type]

\* addCitation(title, url, type) on the closure state [citations, seenUrls]
addCitation(st, c) ==
    IF ~Truthy(c.url) /\ ~Truthy(c.title) THEN st
    ELSE IF Or(c.url, c.title) \in st.seenUrls THEN st
    ELSE [citations |-> Append(st.citations,
                               [title |-> Or(Or(c.title, c.url), Lit("Untitled")),
                                url |-> Or(c.url, EmptyStr),
                                type |-> Or(c.type, Lit("Citation")),
                                refIndex |-> Len(st.citations) + 1]),
          seenUrls |-> st.seenUrls \cup {Or(c.url, c.title)}]

RECURSIVE AddCitations(_, _)
AddCitations(st, cands) ==
    IF cands = <<>> THEN st ELSE AddCitations(addCitation(st, Head(cands)), Tail(cands))

\* a loop "for (const ref of list) addCitation(mk(ref))": the candidates passed
\* before the first entry whose property read raises, and whether one raised
RECURSIVE RefLoop(_, _, _)
RefLoop(list, urlKeys, type) ==
    IF list = <<>> THEN [threw |-> FALSE, c |-> <<>>]
    ELSE IF Nullish(Head(list)) THEN [threw |-> TRUE, c |-> <<>>]
    ELSE LET ref == Head(list)
             url == IF Len(urlKeys) = 2
                    THEN Or(Get(ref, urlKeys[1]), Get(ref, urlKeys[2]))
                    ELSE Get(ref, urlKeys[1])
             ty == IF type = Undef THEN Or(Get(ref, "type"), Lit("Citation")) ELSE type
             rest == RefLoop(Tail(list), urlKeys, type)
         IN [threw |-> rest.threw, c |-> <<Cand(Get(ref, "title"), url, ty)>> \o rest.c]

\* "const list = value || []; for (const ref of list) ..."
RefList(value, urlKeys, type) ==
    LET list == Or(value, Arr(<<>>))
    IN IF ~Iterable(list) THEN [threw |-> TRUE, c |-> <<>>]
       ELSE RefLoop(Items(list), urlKeys, type)

\* two loops in sequence: the second runs unless the first raised
Then(first, second) ==
    IF first.threw THEN first ELSE [threw |-> second.threw, c |-> first.c \o second.c]

NoCands == [threw |-> FALSE, c |-> <<>>]

\* the loop over groups, each with entries under key k1 or else k2
RECURSIVE GroupLoop(_, _, _)
GroupLoop(groups, k1, k2) ==
    IF groups = <<>> THEN [threw |-> FALSE, c |-> <<>>]
    ELSE IF Nullish(Head(groups)) THEN [threw |-> TRUE, c |-> <<>>]
    ELSE Then(RefList(Or(Get(Head(groups), k1), Get(Head(groups), k2)),
                      <<"url">>, Lit("Search Result")),
              GroupLoop(Tail(groups), k1, k2))

GroupList(value, k1, k2) ==
    LET groups == Or(value, Arr(<<>>))
    IN IF ~Iterable(groups) THEN [threw |-> TRUE, c |-> <<>>]
       ELSE GroupLoop(Items(groups), k1, k2)

\* metadata.content_references
ContentReferences(metadata) ==
    RefList(Get(metadata, "content_references"), <<"url">>, Undef)

\* metadata._cite_metadata: the citations list, then metadata_list
CiteMetadataOf(citeMeta) ==
    IF ~Truthy(citeMeta) THEN NoCands
    ELSE Then(RefList(Or(OptGet(Get(citeMeta, "citation_format"), "citations"),
                         Get(citeMeta, "citations")),
                      <<"url", "href">>, Lit("Citation")),
              RefList(Get(citeMeta, "metadata_list"), <<"url">>, Lit("Citation")))

CiteMetadata(metadata) == CiteMetadataOf(Get(metadata, "_cite_metadata"))

\* metadata.search_result_groups
SearchResultGroups(metadata) ==
    GroupList(Get(metadata, "search_result_groups"), "search_results", "entries")

\* one content part: a Footnote candidate, then a Source candidate
PartCitations(part) ==
    IF ~(Truthy(part) /\ TypeofObject(part)) THEN <<>>
    ELSE (IF Get(part, "content_type") = Lit("cite") /\ Truthy(Get(part, "url"))
          THEN <<Cand(Get(part, "title"), Get(part, "url"), Lit("Footnote"))>>
          ELSE <<>>)
         \o
         (IF Truthy(Get(part, "url")) /\ Truthy(Get(part, "title"))
          THEN <<Cand(Get(part, "title"), Get(part, "url"), Lit("Source"))>>
          ELSE <<>>)

\* message.content?.parts || []
MessageParts(message) == Or(OptGet(Get(message, "content"), "parts"), Arr(<<>>))

ContentPartsOf(parts) ==
    IF ~Iterable(parts) THEN [threw |-> TRUE, c |-> <<>>]
    ELSE [threw |-> FALSE,
          c |-> Flatten([i \in 1..Len(Items(parts)) |-> PartCitations(Items(parts)[i])])]

ContentParts(message) == ContentPartsOf(MessageParts(message))

\* a parse without try/catch
RaisingResultCitations(parsed) ==
    IF ~parsed.ok \/ Nullish(parsed.v) THEN [threw |-> TRUE, c |-> <<>>]
    ELSE GroupList(Or(Get(parsed.v, "groups"), Get(parsed.v, "search_result_groups")),
                   "entries", "search_results")

\* message.content?.result, inside try/catch: whatever raises is swallowed
\* (threw stays FALSE): "catch (e) { /* not JSON, skip */ }"
ParsedResultCitations(parsed) ==
    IF ~parsed.ok THEN NoCands
    ELSE IF Nullish(parsed.v) THEN NoCands
    ELSE [threw |-> FALSE,
          c |-> GroupList(Or(Get(parsed.v, "groups"), Get(parsed.v, "search_result_groups")),
                          "entries", "search_results").c]

ContentResultOf(contentResult) ==
    IF ~(Truthy(contentResult) /\ contentResult.t = "str") THEN NoCands
    ELSE ParsedResultCitations(JSONParse(contentResult))

ContentResultCitations(message) == ContentResultOf(OptGet(Get(message, "content"), "result"))

\* the scans merged with the parsed raw result first
ResultFirst(s1, s2, s3, s4, s5) ==
    [threw |-> s1.threw \/ s2.threw \/ s3.threw \/ s4.threw \/ s5.threw,
     citations |-> AddCitations([citations |-> <<>>, seenUrls |-> {}],
                                s5.c \o s1.c \o s2.c \o s3.c \o s4.c).citations]

\* the five scans in order; a scan that raises ends the call
AllCitations(s1, s2, s3, s4, s5) ==
    [threw |-> s1.threw \/ s2.threw \/ s3.threw \/ s4.threw \/ s5.threw,
     citations |-> AddCitations([citations |-> <<>>, seenUrls |-> {}],
                                s1.c \o s2.c \o s3.c \o s4.c \o s5.c).citations]

\* extractCitations(metadata, message) as [threw, citations]
extractCitations(metadata, message) ==
    AllCitations(ContentReferences(metadata), CiteMetadata(metadata),
                 SearchResultGroups(metadata), ContentParts(message),
                 ContentResultCitations(message))

-----------------------------------------------------------------------------
(* findParentUserPrompt *)

Sentinel == <<"(unknown prompt)">>

\* the keys of the generated mappings, in insertion order (Object.values order)
KeyOrder == <<"n1", "n2", "n3", "n4", "n5", "n6", "n7", "n8">>

\* the property key a node id names
KeyOf(id) == IF id.t = "str" /\ Len(id.s) = 1 THEN id.s[1] ELSE ""

\* mapping[currentId]
Lookup(mapping, id) == Get(mapping, KeyOf(id))

\* parts.filter((p) => typeof p === 'string').join(' ').trim()
PromptText(parts) ==
    LET strs == SelectSeq(parts.a, LAMBDA p : p.t = "str")
    IN Trim(JoinSpace([i \in 1..Len(strs) |-> strs[i].s]))

\* a loop condition without the visited check
IgnoreVisited(currentId, visited) == Truthy(currentId)

\* the loop condition: currentId && !visited.has(currentId)
WalkContinues(currentId, visited) == Truthy(currentId) /\ currentId \notin visited

\* "if (!node || !node.message)": a node that is absent or has no message
IsPlaceholder(node) == ~Truthy(node) \/ ~Truthy(Get(node, "message"))

\* node.message.author?.role === 'user', for a node with a message
IsUserNode(node) ==
    ~IsPlaceholder(node) /\ OptGet(Get(Get(node, "message"), "author"), "role") = Lit("user")

\* a walk that ends at a node without a message
StopAtPlaceholder(node) == IF IsPlaceholder(node) THEN Undef ELSE Get(node, "parent")

\* the id the loop goes on with after a node that is no user message:
\* "currentId = node?.parent; continue" and "currentId = node.parent"
StepOver(node) == IF IsPlaceholder(node) THEN OptGet(node, "parent") ELSE Get(node, "parent")

\* the return inside the loop; parts.filter raises when parts is no array
UserPrompt(parts, trace) ==
    [prompt |-> IF IsArray(parts) THEN PromptText(parts) ELSE <<>>,
     found |-> TRUE, threw |-> ~IsArray(parts), capped |-> FALSE, trace |-> trace]

\* the loop of findParentUserPrompt.  trace lists the ids the loop body ran
\* for, in order; found tells a user message returned the result; capped tells
\* the model stopped a loop that ran WalkCap times.
RECURSIVE WalkLoop(_, _, _, _)
WalkLoop(mapping, currentId, visited, trace) ==
    IF ~WalkContinues(currentId, visited)
    THEN [prompt |-> Sentinel, found |-> FALSE, threw |-> FALSE, capped |-> FALSE,
          trace |-> trace]
    ELSE IF Len(trace) >= WalkCap
    THEN [prompt |-> Sentinel, found |-> FALSE, threw |-> FALSE, capped |-> TRUE,
          trace |-> trace]
    ELSE IF IsUserNode(Lookup(mapping, currentId))
    THEN UserPrompt(MessageParts(Get(Lookup(mapping, currentId), "message")),
                    Append(trace, currentId))
    ELSE WalkLoop(mapping, StepOver(Lookup(mapping, currentId)),
                  visited \cup {currentId}, Append(trace, currentId))

\* findParentUserPrompt(assistantNode, mapping)
findParentUserPrompt(assistantNode, mapping) ==
    WalkLoop(mapping, Get(assistantNode, "parent"), {}, <<>>)

-----------------------------------------------------------------------------
(* parseConversation *)

NoStrings == [threw |-> FALSE, v |-> <<>>]

\* "if (obj.key) list.push(...extractQueryStrings(normalizeQueryField(obj.key)))"
ProbeField(obj, key) ==
    IF Truthy(Get(obj, key)) THEN QueryField(Get(obj, key)) ELSE NoStrings

\* the queries embedded in content parts, as [threw, shadow, visible]
PartQueriesOf(parts, vis, hid) ==
    [threw |-> ~Iterable(parts) \/ \E i \in 1..Len(vis) : vis[i].threw \/ hid[i].threw,
     shadow |-> Flatten([i \in 1..Len(hid) |-> hid[i].v]),
     visible |-> Flatten([i \in 1..Len(vis) |-> vis[i].v])]

\* the parts the loop looks into: part && typeof part === 'object'
ObjectParts(parts) == SelectSeq(Items(parts), LAMBDA p : Truthy(p) /\ TypeofObject(p))

ProbeParts(parts, key) ==
    [i \in 1..Len(ObjectParts(parts)) |-> ProbeField(ObjectParts(parts)[i], key)]

PartQueries(message) ==
    PartQueriesOf(MessageParts(message),
                  ProbeParts(MessageParts(message), "search_queries"),
                  ProbeParts(MessageParts(message), "search_model_queries"))

\* the raw result string of a tether message, inside try/catch: a failed parse
\* or a TypeError ends the block, the pushes made before it stay
NoQueries == [threw |-> FALSE, shadow |-> <<>>, visible |-> <<>>]

\* the two pushes inside the try block
ResultPushes(hid, vis) ==
    IF hid.threw THEN NoQueries
    ELSE IF vis.threw THEN [threw |-> FALSE, shadow |-> hid.v, visible |-> <<>>]
    ELSE [threw |-> FALSE, shadow |-> hid.v, visible |-> vis.v]

\* threw stays FALSE: "catch (e) { /* not JSON, skip */ }"
ParsedResultQueries(parsed) ==
    IF ~parsed.ok THEN NoQueries
    ELSE IF Nullish(parsed.v) THEN NoQueries
    ELSE ResultPushes(ProbeField(parsed.v, "search_model_queries"),
                      ProbeField(parsed.v, "search_queries"))

ResultQueriesOf(contentType, res) ==
    IF contentType \notin {Lit("tether_browsing_display"), Lit("tether_quote")}
    THEN NoQueries
    ELSE IF ~(Truthy(res) /\ res.t = "str") THEN NoQueries
    ELSE ParsedResultQueries(JSONParse(res))

ResultQueries(message) ==
    ResultQueriesOf(Or(OptGet(Get(message, "content"), "content_type"), EmptyStr),
                    OptGet(Get(message, "content"), "result"))

\* a fallback that does not look at the primary fields
AlwaysUseArgs(metadata, hid, vis) == Truthy(Get(metadata, "args"))

\* the metadata fields: search_model_queries, search_queries, and args when
\* both gave nothing
\* "if (metadata.args && !shadowStrings.length && !visibleStrings.length)"
UseArgs(metadata, hid, vis) == Truthy(Get(metadata, "args")) /\ hid.v = <<>> /\ vis.v = <<>>

ArgsQueries(metadata, hid, vis) ==
    IF UseArgs(metadata, hid, vis) THEN QueryField(Get(metadata, "args")) ELSE NoStrings

MetadataQueriesOf(hid, vis, args) ==
    [threw |-> hid.threw \/ vis.threw \/ args.threw,
     shadow |-> hid.v \o args.v,
     visible |-> vis.v]

MetadataFields(metadata, hid, vis) ==
    MetadataQueriesOf(hid, vis, ArgsQueries(metadata, hid, vis))

MetadataQueries(metadata) ==
    MetadataFields(metadata, QueryField(Get(metadata, "search_model_queries")),
                   QueryField(Get(metadata, "search_queries")))

\* (message.author?.name || '').toLowerCase() raises for a name that is no string
AuthorNameThrows(message) ==
    Or(OptGet(Get(message, "author"), "name"), EmptyStr).t # "str"

\* the loop body up to "Skip if this message has no search data at all":
\* [threw, shadowStrings, visibleStrings, citations] of a node with a message
Findings(nameThrows, m, p, r, c) ==
    [threw |-> nameThrows \/ m.threw \/ p.threw \/ r.threw \/ c.threw,
     shadowStrings |-> m.shadow \o p.shadow \o r.shadow,
     visibleStrings |-> m.visible \o p.visible \o r.visible,
     citations |-> c.citations]

\* message.metadata || {}
MetadataOf(message) == Or(Get(message, "metadata"), EmptyObj)

NodeFindings(message) ==
    Findings(AuthorNameThrows(message), MetadataQueries(MetadataOf(message)),
             PartQueries(message), ResultQueries(message),
             extractCitations(MetadataOf(message), message))

\* metadata.model_slug || conversationData.model || 'unknown'
ModelOf(message, data) ==
    Or(Or(Get(MetadataOf(message), "model_slug"), Get(data, "model")), Lit("unknown"))

\* a Map that never finds the prompt
NoGroup(groups, userPrompt) == FALSE

\* promptGroups.has(userPrompt)
HasGroup(groups, userPrompt) == \E i \in 1..Len(groups) : groups[i].userPrompt = userPrompt

\* a merge that records the model of every contributing message
MergeLastModel(groups, userPrompt, model, f) ==
    LET gs == IF HasGroup(groups, userPrompt) THEN groups
              ELSE Append(groups, [userPrompt |-> userPrompt, shadowStrings |-> <<>>,
                                   visibleStrings |-> <<>>, citations |-> <<>>,
                                   model |-> model])
    IN [i \in 1..Len(gs) |->
           IF gs[i].userPrompt = userPrompt
           THEN [gs[i] EXCEPT !.shadowStrings = @ \o f.shadowStrings,
                              !.visibleStrings = @ \o f.visibleStrings,
                              !.citations = @ \o f.citations,
                              !.model = model]
           ELSE gs[i]]

\* "Merge into prompt group": create the group on first use, then push
MergeGroup(groups, userPrompt, model, f) ==
    LET gs == IF HasGroup(groups, userPrompt) THEN groups
              ELSE Append(groups, [userPrompt |-> userPrompt, shadowStrings |-> <<>>,
                                   visibleStrings |-> <<>>, citations |-> <<>>,
                                   model |-> model])
    IN [i \in 1..Len(gs) |->
           IF gs[i].userPrompt = userPrompt
           THEN [gs[i] EXCEPT !.shadowStrings = @ \o f.shadowStrings,
                              !.visibleStrings = @ \o f.visibleStrings,
                              !.citations = @ \o f.citations]
           ELSE gs[i]]

\* a scan that skips no message
NeverSkip(f) == FALSE

\* "Skip if this message has no search data at all"
NothingFound(f) == f.shadowStrings = <<>> /\ f.visibleStrings = <<>> /\ f.citations = <<>>

\* the loop body for a node with a message: what it leaves in
\* [threw, groups, walks].  f is the node's findings and w the run of
\* findParentUserPrompt for it; walks logs every such run with the index of
\* the node it ran for.
ScanNode(data, node, i, groups, walks, f, w) ==
    IF f.threw THEN [threw |-> TRUE, groups |-> groups, walks |-> walks]
    ELSE IF NothingFound(f)
    THEN [threw |-> FALSE, groups |-> groups, walks |-> walks]
    ELSE [threw |-> w.threw \/ w.capped,
          groups |-> IF w.threw \/ w.capped THEN groups
                     ELSE MergeGroup(groups, w.prompt, ModelOf(Get(node, "message"), data), f),
          walks |-> Append(walks, [node |-> i, walk |-> w])]

\* the loop body for one node: node.message of a null node raises
ScanStep(data, node, i, groups, walks) ==
    IF Nullish(node) THEN [threw |-> TRUE, groups |-> groups, walks |-> walks]
    ELSE IF ~Truthy(Get(node, "message"))
    THEN [threw |-> FALSE, groups |-> groups, walks |-> walks]
    ELSE ScanNode(data, node, i, groups, walks, NodeFindings(Get(node, "message")),
                  findParentUserPrompt(node, Get(data, "mapping")))

RECURSIVE ScanLoop(_, _, _, _)
ScanLoop(data, nodes, i, st) ==
    IF i > Len(nodes) \/ st.threw THEN st
    ELSE ScanLoop(data, nodes, i + 1, ScanStep(data, nodes[i], i, st.groups, st.walks))

\* the first pass from node i on: [threw, groups, walks]
ScanFrom(data, nodes, i, groups, walks) ==
    ScanLoop(data, nodes, i, [threw |-> FALSE, groups |-> groups, walks |-> walks])

\* Object.values(mapping)
ObjectValues(mapping) ==
    IF mapping.t = "obj"
    THEN LET keys == SelectSeq(KeyOrder, LAMBDA k : k \in DOMAIN mapping.o)
         IN [i \in 1..Len(keys) |-> mapping.o[keys[i]]]
    ELSE Items(mapping)

\* second pass, queries: one loop over texts, state [out, seenLower]
RECURSIVE DedupLoop(_, _, _)
DedupLoop(st, texts, hidden) ==
    IF texts = <<>> THEN st
    ELSE LET lower == ToLowerCase(Head(texts))
         IN DedupLoop(IF lower \notin st.seenLower
                      THEN [out |-> Append(st.out, [text |-> Head(texts), hidden |-> hidden]),
                            seenLower |-> st.seenLower \cup {lower}]
                      ELSE st,
                      Tail(texts), hidden)

\* the two loops in the other order
VisibleFirst(group) ==
    DedupLoop(DedupLoop([out |-> <<>>, seenLower |-> {}], group.visibleStrings, FALSE),
              group.shadowStrings, TRUE).out

\* shadow queries first (hidden), then visible queries not already present
DedupQueries(group) ==
    DedupLoop(DedupLoop([out |-> <<>>, seenLower |-> {}], group.shadowStrings, TRUE),
              group.visibleStrings, FALSE).out

\* the refIndex extractCitations gave, kept
LocalRefIndex(c, uniqueCitations) == c.refIndex

\* the refIndex a kept citation gets
FinalRefIndex(c, uniqueCitations) == Len(uniqueCitations) + 1

\* a key that looks at the title alone
KeyByTitle(c) == c.title

\* the dedup key of an accumulated citation
CitationKey(c) == Or(c.url, c.title)

\* second pass, citations: state [out, seenUrls]
RECURSIVE DedupCitationLoop(_, _)
DedupCitationLoop(st, cs) ==
    IF cs = <<>> THEN st
    ELSE LET c == Head(cs)
             key == CitationKey(c)
         IN DedupCitationLoop(
                IF key \notin st.seenUrls
                THEN [out |-> Append(st.out,
                                     [c EXCEPT !.refIndex = FinalRefIndex(c, st.out)]),
                      seenUrls |-> st.seenUrls \cup {key}]
                ELSE st,
                Tail(cs))

DedupCitations(group) ==
    DedupCitationLoop([out |-> <<>>, seenUrls |-> {}], group.citations).out

\* the second pass: the result objects of the non-empty groups, in Map order
BuildResults(groups) ==
    LET all == [i \in 1..Len(groups) |->
                   [userPrompt |-> groups[i].userPrompt,
                    shadowQueries |-> DedupQueries(groups[i]),
                    citations |-> DedupCitations(groups[i]),
                    model |-> groups[i].model]]
    IN SelectSeq(all, LAMBDA r : Len(r.shadowQueries) > 0 \/ Len(r.citations) > 0)

\* "if (!mapping) return []"
MappingMissing(mapping) == ~Truthy(mapping)

\* parseConversation(conversationData) as [threw, results, groups, walks];
\* groups is the Map after the first pass
Parsed(scan) ==
    [threw |-> scan.threw,
     results |-> IF scan.threw THEN <<>> ELSE BuildResults(scan.groups),
     groups |-> scan.groups, walks |-> scan.walks]

\* a Map that outlives the call: it starts as the last call left it
LeftoverGroups(last) == last

\* "const promptGroups = new Map()": every call starts from an empty Map,
\* whatever the groups the last call ended with
FreshGroups(last) == <<>>

\* parseConversation(conversationData) called after a call that ended with
\* the groups last
parseConversationAfter(data, last) ==
    IF Nullish(data)
    THEN [threw |-> TRUE, results |-> <<>>, groups |-> <<>>, walks |-> <<>>]
    ELSE IF MappingMissing(Get(data, "mapping"))
    THEN [threw |-> FALSE, results |-> <<>>, groups |-> <<>>, walks |-> <<>>]
    ELSE Parsed(ScanFrom(data, ObjectValues(Get(data, "mapping")), 1, FreshGroups(last),
                         <<>>))

\* the first call
parseConversation(data) == parseConversationAfter(data, <<>>)

-----------------------------------------------------------------------------
(* extract() and its two fetches *)

HexUnits == {"a", "b", "c", "d", "e", "f", "0", "1", "2", "3", "4", "5", "6", "7", "8", "9", "-"}

\* the longest prefix of seg made of [a-f0-9-]
RECURSIVE HexPrefix(_)
HexPrefix(seg) ==
    IF seg # <<>> /\ Head(seg) \in HexUnits THEN <<Head(seg)>> \o HexPrefix(Tail(seg))
    ELSE <<>>

\* pathname.match(/\/(?:c|g)\/([a-f0-9-]+)/): the positions where it matches
ConversationMatches(path) ==
    {i \in 1..(Len(path) - 1) : path[i] \in {<<"c">>, <<"g">>} /\ HexPrefix(path[i + 1]) # <<>>}

\* getConversationIdFromURL(): match ? match[1] : null
getConversationIdFromURL(path) ==
    IF ConversationMatches(path) = {} THEN Null
    ELSE LET i == CHOOSE k \in ConversationMatches(path) :
                      \A j \in ConversationMatches(path) : k <= j
         IN Str(HexPrefix(path[i + 1]))

\* a fetch response: rejected (network error), or an HTTP status with a body
\* that response.json() resolves to (bodyOk) or rejects on
Response(status, bodyOk, body) ==
    [rejected |-> FALSE, status |-> status, bodyOk |-> bodyOk, body |-> body]
Rejected == [rejected |-> TRUE, status |-> 0, bodyOk |-> FALSE, body |-> Undef]

\* response.ok
ResponseOk(r) == r.status >= 200 /\ r.status <= 299

\* fetchAccessToken(): [ok, token, error]; error is the message of the Error
\* it rejects with
fetchAccessToken(r) ==
    LET fail(m) == [ok |-> FALSE, token |-> Undef, error |-> m]
    IN IF r.rejected THEN fail("AUTH_FAILED: fetch")
       ELSE IF ~ResponseOk(r)
       THEN IF r.status = 401 \/ r.status = 403 THEN fail("NOT_LOGGED_IN")
            ELSE fail("AUTH_FAILED: Session fetch failed")
       ELSE IF ~r.bodyOk \/ Nullish(r.body) THEN fail("AUTH_FAILED: json")
       ELSE IF ~Truthy(Get(r.body, "accessToken")) THEN fail("NOT_LOGGED_IN")
       ELSE [ok |-> TRUE, token |-> Get(r.body, "accessToken"), error |-> ""]

\* fetchConversation(): [ok, data, error]
fetchConversation(r) ==
    LET fail(m) == [ok |-> FALSE, data |-> Undef, error |-> m]
    IN IF r.rejected THEN fail("fetch")
       ELSE IF ~ResponseOk(r)
       THEN IF r.status = 401 \/ r.status = 403 THEN fail("TOKEN_EXPIRED")
            ELSE IF r.status = 429 THEN fail("RATE_LIMITED")
            ELSE fail("Conversation fetch failed")
       ELSE IF ~r.bodyOk THEN fail("json")
       ELSE [ok |-> TRUE, data |-> r.body, error |-> ""]

\* buildDebugSummary(conversationData) raises: node.message of a null node
buildDebugSummaryThrows(data) ==
    \/ Nullish(data)
    \/ /\ Truthy(Get(data, "mapping"))
       /\ \E i \in 1..Len(ObjectValues(Get(data, "mapping"))) :
              Nullish(ObjectValues(Get(data, "mapping"))[i])

\* a count of the groups instead of their entries
CountGroups(rs, field) == Len(rs)

RECURSIVE SumLen(_, _)
\* queryResults.reduce((sum, r) => sum + r[field].length, 0)
SumLen(rs, field) ==
    IF rs = <<>> THEN 0 ELSE Len(Head(rs)[field]) + SumLen(Tail(rs), field)

NoData == [conversationId |-> Null, results |-> <<>>, totalShadowQueries |-> 0,
           totalCitations |-> 0]

\* the objects extract() resolves to; error = "" and hasData = FALSE stand
\* for an absent property
Failure(error) == [success |-> FALSE, error |-> error, hasData |-> FALSE, data |-> NoData]
Success(error, data) == [success |-> TRUE, error |-> error, hasData |-> TRUE, data |-> data]
Pending == [success |-> FALSE, error |-> "", hasData |-> FALSE, data |-> NoData]

NotParsed == [threw |-> FALSE, results |-> <<>>, groups |-> <<>>, walks |-> <<>>]

\* no helper method is being looked at on its own
NoCall == [fn |-> "none", arg |-> Undef, out |-> Undef]

\* the catch block of the conversation try
ConversationFailure(message) ==
    IF message = "TOKEN_EXPIRED" THEN Failure("TOKEN_EXPIRED")
    ELSE IF message = "RATE_LIMITED" THEN Failure("RATE_LIMITED")
    ELSE Failure("EXTRACTION_FAILED")

\* an empty-report test on the query count instead of the results list
ReportByQueryCount(id, parsed) ==
    IF SumLen(parsed.results, "shadowQueries") = 0
    THEN Success("NO_SEARCH_QUERIES",
                 [conversationId |-> id, results |-> <<>>, totalShadowQueries |-> 0,
                  totalCitations |-> 0])
    ELSE Success("",
                 [conversationId |-> id, results |-> parsed.results,
                  totalShadowQueries |-> SumLen(parsed.results, "shadowQueries"),
                  totalCitations |-> SumLen(parsed.results, "citations")])

\* the success returns of extract()
Report(id, parsed) ==
    IF Len(parsed.results) = 0
    THEN Success("NO_SEARCH_QUERIES",
                 [conversationId |-> id, results |-> <<>>, totalShadowQueries |-> 0,
                  totalCitations |-> 0])
    ELSE Success("",
                 [conversationId |-> id, results |-> parsed.results,
                  totalShadowQueries |-> SumLen(parsed.results, "shadowQueries"),
                  totalCitations |-> SumLen(parsed.results, "citations")])

-----------------------------------------------------------------------------
(* The conversation documents the server may answer with *)

SeqsUpTo(S, n) == UNION {[1..k -> S] : k \in 0..n}

\* the lists of MaxFindNodes nodes: the first two from S, the later ones from T
NodeLists(S, T) ==
    {a \o b : a \in [1..(IF MaxFindNodes < 2 THEN MaxFindNodes ELSE 2) -> S],
              b \in [1..(IF MaxFindNodes < 2 THEN 0 ELSE MaxFindNodes - 2) -> T]}

Id(k) == Lit(k)
Node(message, parent) == Obj([message |-> message, parent |-> parent])
Message(role, metadata, content) ==
    Obj([author |-> Obj([role |-> Lit(role)]), metadata |-> metadata, content |-> content])
TextContent(parts) == Obj([content_type |-> Lit("text"), parts |-> Arr(parts)])
UserNode(text, parent) == Node(Message("user", EmptyObj, TextContent(<<Str(text)>>)), parent)
PlainNode(parent) == Node(Message("assistant", EmptyObj, TextContent(<<Lit("x")>>)), parent)
FindingNode(metadata, content, parent) == Node(Message("assistant", metadata, content), parent)

\* the mapping whose keys, in insertion order, are the first Len(nodes) of KeyOrder
MapOf(nodes) ==
    Obj([k \in {KeyOrder[i] : i \in 1..Len(nodes)} |->
            nodes[CHOOSE i \in 1..Len(nodes) : KeyOrder[i] = k]])
Doc(nodes) == Obj([mapping |-> MapOf(nodes)])

Strings(texts) == Arr([i \in 1..Len(texts) |-> Str(texts[i])])

\* -- parent graphs: n1 has a finding, n2.. are its possible ancestors; parent
\* links are arbitrary (self links, cycles, ids absent from the mapping, none)
ChainIds == {Id(KeyOrder[i]) : i \in 1..(MaxChain + 1)}
ParentRefs == ChainIds \cup {Undef, Id("zz")}
\* what an ancestor may hold: no message, a user message, an assistant
\* message; the user messages of every second ancestor read like the sentinel
AncestorMessages(i) ==
    {Undef,
     Message("user", EmptyObj,
             TextContent(<<IF i % 2 = 0 THEN Str(Sentinel) ELSE Lit("p")>>)),
     Message("assistant", EmptyObj, TextContent(<<Lit("x")>>))}
\* the first two ancestors take every message and every parent; a later one
\* is a user node that is a root, points back to the first ancestor or to itself
AncestorNodes(i) ==
    IF i <= 2 THEN {Node(m, p) : m \in AncestorMessages(i), p \in ParentRefs}
    ELSE {UserNode(<<"p">>, p) : p \in {Undef, Id(KeyOrder[2]), Id(KeyOrder[i + 1])}}
RECURSIVE AncestorListsFrom(_)
AncestorListsFrom(i) ==
    IF i > MaxChain THEN {<<>>}
    ELSE {<<n>> \o rest : n \in AncestorNodes(i), rest \in AncestorListsFrom(i + 1)}
AncestorLists == AncestorListsFrom(1)
StartNode(p) ==
    FindingNode(Obj([search_queries |-> Strings(<<<<"q">>>>)]), TextContent(<<>>), p)
WalkDocs ==
    {Doc(<<StartNode(Id("n2"))>> \o a) : a \in AncestorLists}
    \cup {Doc(<<StartNode(p)>> \o [i \in 1..MaxChain |-> UserNode(<<"p">>, Undef)]) :
             p \in ParentRefs}

\* -- user prompts whose parts need filtering, joining and trimming
PromptParts ==
    {<<>>, <<Lit(" ")>>, <<Str(<<" ", "p">>), Obj([url |-> Lit("u")]), Str(<<"r", " ">>)>>,
     <<Lit("p"), Lit("r")>>, <<Num(5), Lit("p")>>}
PromptDocs ==
    {Doc(<<Node(Message("user", EmptyObj, TextContent(parts)), Undef),
           FindingNode(Obj([search_queries |-> Strings(<<<<"q">>>>)]), TextContent(<<>>),
                       Id("n1"))>>) : parts \in PromptParts}

\* -- queries of several messages under two prompts
TwoPrompts == <<UserNode(<<"p">>, Undef), UserNode(<<"r">>, Id("n1"))>>
HiddenChoices == {<<>>, <<<<"Q">>>>}
VisibleChoices == {<<>>, <<<<"q">>>>, <<<<"r">>>>}
QueryNodes ==
    {FindingNode(Obj([search_model_queries |-> Strings(h), search_queries |-> Strings(v)]),
                 TextContent(<<>>), p) :
        h \in HiddenChoices, v \in VisibleChoices, p \in {Id("n1"), Id("n2")}}
LaterQueryNodes ==
    {FindingNode(Obj([search_model_queries |-> Strings(<<<<"Q">>>>),
                      search_queries |-> Strings(v)]),
                 TextContent(<<>>), Id("n1")) : v \in VisibleChoices}
QueryDocs == {Doc(TwoPrompts \o f) : f \in NodeLists(QueryNodes, LaterQueryNodes)}

\* -- query lists of one message, in each place the scan probes
QueryTexts == {<<"q">>, <<"Q">>, <<"r">>}
QueryLists == SeqsUpTo(QueryTexts, MaxList)
QueryFields(h, v) == Obj([search_model_queries |-> Strings(h), search_queries |-> Strings(v)])
PlacedNode(place, h, v) ==
    CASE place = "metadata" ->
           FindingNode(QueryFields(h, v), TextContent(<<>>), Id("n1"))
      [] place = "args" ->
           FindingNode(Obj([args |-> Strings(h), search_queries |-> Strings(v)]),
                       TextContent(<<>>), Id("n1"))
      [] place = "parts" ->
           FindingNode(EmptyObj, TextContent(<<Lit("x"), QueryFields(h, v)>>), Id("n1"))
      [] place = "tether" ->
           FindingNode(EmptyObj,
                       Obj([content_type |-> Lit("tether_browsing_display"),
                            result |-> JsonText(QueryFields(h, v))]),
                       Id("n1"))
      [] place = "code" ->
           FindingNode(Obj([search_queries |-> Strings(<<<<"P">>>>)]),
                       Obj([content_type |-> Lit("code"),
                            result |-> JsonText(QueryFields(h, v))]),
                       Id("n1"))
Places == {"metadata", "args", "parts", "tether", "code"}
ListDocs ==
    {Doc(<<UserNode(<<"p">>, Undef), PlacedNode(place, h, v)>>) :
        place \in Places,
        h \in QueryLists, v \in {x \in QueryLists : Len(x) <= 1}}
    \cup {Doc(<<UserNode(<<"p">>, Undef), PlacedNode(place, h, v)>>) :
              place \in Places,
              h \in {x \in QueryLists : Len(x) <= 1}, v \in QueryLists}

\* -- findings whose parent chain reaches no user message, next to findings
\* under a user message that may itself read like the sentinel
OrphanNodes ==
    {FindingNode(QueryFields(hv[1], hv[2]), TextContent(<<>>), p) :
        hv \in {<<(<<<<"Q">>>>), <<>>>>, <<(<<>>), <<<<"q">>>>>>},
        p \in {Undef, Id("zz"), Id("n1")}}
OrphanDocs ==
    {Doc(<<UserNode(t, Undef)>> \o f) :
        t \in {<<"p">>, Sentinel},
        f \in NodeLists(OrphanNodes, {n \in OrphanNodes : Get(n, "parent") = Undef})}

\* -- the fallback field metadata.args next to the two primary fields
ArgsValues ==
    {Undef, Strings(<<>>), Strings(<<<<"r">>>>), Obj([queries |-> Strings(<<<<"r">>, <<"Q">>>>)])}
ArgsNode(a, b, c) ==
    FindingNode(Obj([search_model_queries |-> Strings(a), search_queries |-> Strings(b),
                     args |-> c]),
                TextContent(<<>>), Id("n1"))
ArgsDocs ==
    {Doc(<<UserNode(<<"p">>, Undef), ArgsNode(a, b, c)>>) :
        a \in {<<>>, <<<<" ">>>>, <<<<"Q">>>>}, b \in {<<>>, <<<<" ">>>>, <<<<"q">>>>},
        c \in ArgsValues}

\* -- messages of different models under two prompts, in a document with or
\* without a model of its own
ModelSlugs == {Undef, Lit("m1"), Lit("m2")}
ModelNode(slug, text, p) ==
    FindingNode(Obj([model_slug |-> slug, search_queries |-> Strings(<<text>>)]),
                TextContent(<<>>), p)
ModelDocs ==
    {Obj([mapping |-> MapOf(TwoPrompts \o <<ModelNode(s1, <<"q">>, p1),
                                            ModelNode(s2, <<"r">>, p2)>>),
          model |-> dm]) :
        s1 \in ModelSlugs, s2 \in ModelSlugs, p1 \in {Id("n1"), Id("n2")},
        p2 \in {Id("n1"), Id("n2")}, dm \in {Undef, Lit("d")}}

\* -- citations of several messages under two prompts
RefT1U == Obj([title |-> Lit("T1"), url |-> Lit("U")])
RefT2U == Obj([title |-> Lit("T2"), url |-> Lit("U")])
RefT1 == Obj([title |-> Lit("T1")])
RefU == Obj([title |-> Lit("U")])
RefV == Obj([url |-> Lit("V"), type |-> Lit("webpage")])
Refs == {RefT1U, RefT2U, RefT1, RefU, RefV}
CiteNodes ==
    {FindingNode(Obj([content_references |-> Arr(refs)]), TextContent(<<>>), p) :
        refs \in SeqsUpTo(Refs, 1), p \in {Id("n1"), Id("n2")}}
LaterCiteNodes ==
    {FindingNode(Obj([content_references |-> Arr(<<ref>>)]), TextContent(<<>>), Id("n1")) :
        ref \in {RefT1U, RefT2U, RefV}}
CiteDocs == {Doc(TwoPrompts \o f) : f \in NodeLists(CiteNodes, LaterCiteNodes)}

\* -- citation lists of one message, in each place extractCitations scans
Groups(key, refs) == Arr(<<Obj([x \in {key} |-> Arr(refs)])>>)
CitedNode(source, refs) ==
    CASE source = "content_references" ->
           FindingNode(Obj([content_references |-> Arr(refs)]), TextContent(<<>>), Id("n1"))
      [] source = "citation_format" ->
           FindingNode(Obj([_cite_metadata |->
                               Obj([citation_format |-> Obj([citations |-> Arr(refs)]),
                                    metadata_list |-> Arr(<<RefT1U>>)])]),
                       TextContent(<<>>), Id("n1"))
      [] source = "citations" ->
           FindingNode(Obj([_cite_metadata |-> Obj([citations |-> Arr(refs)])]),
                       TextContent(<<>>), Id("n1"))
      [] source = "search_result_groups" ->
           FindingNode(Obj([content_references |-> Arr(<<RefT2U>>),
                            search_result_groups |-> Groups("search_results", refs)]),
                       TextContent(<<>>), Id("n1"))
      [] source = "parts" ->
           FindingNode(EmptyObj, TextContent(refs), Id("n1"))
      [] source = "result" ->
           FindingNode(Obj([search_result_groups |-> Groups("entries", <<RefT1>>)]),
                       Obj([content_type |-> Lit("tether_browsing_display"),
                            result |-> JsonText(Obj([groups |-> Groups("entries", refs)]))]),
                       Id("n1"))
Sources ==
    {"content_references", "citation_format", "citations", "search_result_groups", "parts",
     "result"}
CiteListDocs ==
    {Doc(<<UserNode(<<"p">>, Undef), CitedNode(source, refs)>>) :
        source \in Sources, refs \in SeqsUpTo(Refs, MaxList)}

\* -- one malformed node next to a well-formed one
GoodNode ==
    FindingNode(Obj([search_queries |-> Strings(<<<<"q">>>>),
                     content_references |-> Arr(<<RefT1U>>)]),
                TextContent(<<>>), Id("n1"))
OwnQuery == [search_model_queries |-> Strings(<<<<"r">>>>)]
Garbage == Lit("not json")
MalformedNodes ==
    {Null, Undef,
     FindingNode(Obj([search_queries |-> Arr(<<Obj([text |-> Num(5)])>>)]),
                 TextContent(<<>>), Id("n1")),
     FindingNode(Obj([search_model_queries |-> Obj([queries |-> Arr(<<Obj([q |-> Arr(<<>>)])>>)])]),
                 TextContent(<<>>), Id("n1")),
     FindingNode(Obj([args |-> Arr(<<Obj([search_query |-> Bool(TRUE)])>>)]),
                 TextContent(<<>>), Id("n1")),
     FindingNode(Obj([content_references |-> Num(5)]), TextContent(<<>>), Id("n1")),
     FindingNode(Obj([content_references |-> Arr(<<Null>>)]), TextContent(<<>>), Id("n1")),
     FindingNode(Obj([_cite_metadata |-> Obj([citations |-> Arr(<<RefV, Null>>)])]),
                 TextContent(<<>>), Id("n1")),
     FindingNode(Obj([search_result_groups |-> Num(5)]), TextContent(<<>>), Id("n1")),
     FindingNode(Obj([search_result_groups |-> Arr(<<Null>>)]), TextContent(<<>>), Id("n1")),
     FindingNode(Obj([search_result_groups |-> Groups("entries", <<Null>>)]),
                 TextContent(<<>>), Id("n1")),
     FindingNode(Obj(OwnQuery), Obj([content_type |-> Lit("text"), parts |-> Num(5)]),
                 Id("n1")),
     FindingNode(Obj(OwnQuery), TextContent(<<Null, Lit("x")>>), Id("n1")),
     FindingNode(Obj(OwnQuery),
                 TextContent(<<Obj([search_queries |-> Arr(<<Obj([query |-> Num(5)])>>)])>>),
                 Id("n1")),
     Node(Obj([author |-> Obj([role |-> Lit("tool"), name |-> Num(5)]),
               metadata |-> Obj(OwnQuery), content |-> TextContent(<<>>)]), Id("n1")),
     Node(Num(5), Id("n1")),
     Node(Message("user", Obj(OwnQuery), Obj([content_type |-> Lit("text"), parts |-> Lit("p")])),
          Id("n3"))}

\* -- a raw result string that is not JSON, or is JSON of an unexpected shape
ResultValues ==
    {Garbage, JsonText(Null), JsonText(Num(5)),
     JsonText(Obj([groups |-> Num(5)])),
     JsonText(Obj([groups |-> Groups("entries", <<RefV, Null>>)])),
     JsonText(Obj([search_model_queries |-> Strings(<<<<"Q">>>>),
                   search_queries |-> Arr(<<Obj([text |-> Num(5)])>>)])),
     JsonText(Obj([search_model_queries |-> Arr(<<Obj([text |-> Num(5)])>>),
                   search_queries |-> Strings(<<<<"Q">>>>)]))}
ResultNodes ==
    {FindingNode(Obj(md),
                 Obj([content_type |-> Lit(ct), parts |-> Arr(<<>>), result |-> r]),
                 Id("n1")) :
        md \in {<<>>, OwnQuery, [content_references |-> Arr(<<RefT2U>>)]},
        ct \in {"tether_browsing_display", "tether_quote", "text"},
        r \in ResultValues}

OddNodes == MalformedNodes \cup ResultNodes
OddDocs ==
    {Doc(<<UserNode(<<"p">>, Undef), GoodNode, n>>) : n \in OddNodes}
    \cup {Doc(<<UserNode(<<"p">>, Undef), n, GoodNode>>) : n \in OddNodes}

\* -- documents without a usable mapping, or without findings
BareDocs ==
    {Null, EmptyObj, Obj([model |-> Lit("m")]), Obj([mapping |-> Null]),
     Obj([mapping |-> Num(0)]), Obj([mapping |-> EmptyStr]), Obj([mapping |-> Bool(FALSE)]),
     Obj([mapping |-> EmptyObj]), Obj([mapping |-> Num(5)]), Obj([mapping |-> Lit("ab")]),
     Obj([mapping |-> Arr(<<>>)]), Obj([mapping |-> Arr(<<Null>>)]),
     Doc(<<UserNode(<<"p">>, Undef)>>),
     Doc(<<UserNode(<<"p">>, Undef), PlainNode(Id("n1"))>>),
     Doc(<<Node(Undef, Undef), PlainNode(Id("n1"))>>)}

Docs ==
    WalkDocs \cup PromptDocs \cup QueryDocs \cup ListDocs \cup CiteDocs \cup CiteListDocs
    \cup OddDocs \cup BareDocs \cup OrphanDocs \cup ArgsDocs \cup ModelDocs

-----------------------------------------------------------------------------
(* The state machine of one extraction *)

Pathnames ==
    {<<>>,
     <<<<"c">>, <<"a", "b", "-", "1">>>>,
     <<<<"g">>, <<"g", "-", "x">>, <<"c">>, <<"d", "e", "z">>>>,
     <<<<"s", "h", "a", "r", "e">>, <<"a", "b">>>>,
     <<<<"c">>>>}

SessionResponses ==
    {Rejected,
     Response(200, TRUE, Obj([accessToken |-> Lit("token")])),
     Response(200, TRUE, EmptyObj),
     Response(200, TRUE, Null),
     Response(200, FALSE, Undef),
     Response(401, FALSE, Undef), Response(403, FALSE, Undef), Response(500, FALSE, Undef)}

ConversationFailures ==
    {Rejected, Response(200, FALSE, Undef), Response(401, FALSE, Undef),
     Response(403, FALSE, Undef), Response(429, FALSE, Undef), Response(500, FALSE, Undef),
     Response(404, TRUE, EmptyObj)}

ConversationResponses == ConversationFailures \cup {Response(200, TRUE, d) : d \in Docs}

\* no popup is open
ClosedPopup == [open |-> FALSE]

Init ==
    /\ pc = "idle"
    /\ pathname \in Pathnames
    /\ conversationId = Null
    /\ accessToken = Null
    /\ conversationData = Undef
    /\ queryResults = NotParsed
    /\ result = Pending
    /\ history = <<>>
    /\ call = NoCall
    /\ background = Undef
    /\ popup = ClosedPopup
    /\ requests = <<>>

\* extract() up to the first await
Extract ==
    /\ pc = "idle"
    /\ conversationId' = getConversationIdFromURL(pathname)
    /\ IF ~Truthy(conversationId')
       THEN pc' = "done" /\ result' = Failure("NO_CONVERSATION")
       ELSE pc' = "awaitSession" /\ result' = result
    /\ UNCHANGED <<pathname, accessToken, conversationData, queryResults, history, call,
                   background, popup, requests>>

\* the session fetch settles with r: the rest of fetchAccessToken and the
\* first try/catch of extract()
SessionResponse(r) ==
    /\ pc = "awaitSession"
    /\ LET t == fetchAccessToken(r)
       IN IF t.ok
          THEN /\ accessToken' = t.token
               /\ pc' = "awaitConversation"
               /\ result' = result
          ELSE /\ accessToken' = accessToken
               /\ pc' = "done"
               /\ result' = IF t.error = "NOT_LOGGED_IN" THEN Failure("NOT_LOGGED_IN")
                            ELSE Failure("AUTH_FAILED")
    /\ UNCHANGED <<pathname, conversationId, conversationData, queryResults, history, call,
                   background, popup, requests>>

\* the second try/catch of extract(): c is what fetchConversation resolved or
\* rejected with, parsed what parseConversation gives for its document
Settle(c, parsed) ==
    IF ~c.ok
    THEN /\ conversationData' = conversationData
         /\ queryResults' = queryResults
         /\ history' = history
         /\ result' = ConversationFailure(c.error)
    ELSE /\ conversationData' = c.data
         /\ IF buildDebugSummaryThrows(c.data)
            THEN /\ queryResults' = queryResults
                 /\ history' = history
                 /\ result' = ConversationFailure("TypeError")
            ELSE /\ queryResults' = parsed
                 /\ history' = Append(history, [data |-> c.data, parsed |-> parsed])
                 /\ result' = IF parsed.threw THEN ConversationFailure("TypeError")
                              ELSE Report(conversationId, parsed)

\* the groups the last call of parseConversation ended with
LastGroups == IF history = <<>> THEN <<>> ELSE history[Len(history)].parsed.groups

\* the conversation fetch settles with r
ConversationSettles(r) ==
    /\ Settle(fetchConversation(r),
              parseConversationAfter(fetchConversation(r).data, LastGroups))
    /\ pc' = "done"
    /\ UNCHANGED <<pathname, conversationId, accessToken, call, background, popup, requests>>

\* extract() after its second await
ConversationResponse ==
    /\ pc = "awaitConversation"
    /\ \E r \in ConversationResponses : ConversationSettles(r)

Next ==
    \/ Extract
    \/ \E r \in SessionResponses : SessionResponse(r)
    \/ ConversationResponse

Spec == Init /\ [][Next]_vars

-----------------------------------------------------------------------------
(* Repeated extractions: the message listener runs one extraction for every
   EXTRACT_SHADOW_QUERIES message it receives *)

MaxCalls == 3

RepeatDocs ==
    PromptDocs
    \cup {Doc(<<UserNode(<<"p">>, Undef),
                FindingNode(Obj([content_references |-> Arr(<<RefT1U>>)]), TextContent(<<>>),
                            Id("n1"))>>)}

RepeatResponses ==
    {Response(500, FALSE, Undef)} \cup {Response(200, TRUE, d) : d \in RepeatDocs}

\* extract() after its second await, for the documents of RepeatDocs
RepeatedResponse ==
    /\ pc = "awaitConversation"
    /\ \E r \in RepeatResponses : ConversationSettles(r)

\* the next message arrives: the listener creates a new extractor
Restart ==
    /\ pc = "done"
    /\ Len(history) < MaxCalls
    /\ pc' = "idle"
    /\ conversationId' = Null
    /\ accessToken' = Null
    /\ conversationData' = Undef
    /\ queryResults' = NotParsed
    /\ result' = Pending
    /\ UNCHANGED <<pathname, history, call, background, popup, requests>>

NextRepeat ==
    \/ Extract
    \/ \E r \in SessionResponses : SessionResponse(r)
    \/ RepeatedResponse
    \/ Restart

SpecRepeat == Init /\ [][NextRepeat]_vars

-----------------------------------------------------------------------------
(* Single calls of the helper methods: the argument is drawn when the call
   is made, the action runs the method on it *)

\* -- values found at a query-bearing field
FieldLists == {<<>>, <<Lit("q")>>, <<Lit("q"), Obj([text |-> Lit("r")])>>}
FieldValues ==
    {Undef, Null, Bool(FALSE), Bool(TRUE), Num(0), Num(5), EmptyStr, Lit("ab"), EmptyObj}
    \cup {Arr(l) : l \in FieldLists}
    \cup {Obj([queries |-> Arr(l)]) : l \in FieldLists}
    \cup {Obj([items |-> Arr(l)]) : l \in FieldLists}
    \cup {Obj([queries |-> Arr(a), items |-> Arr(b)]) : a \in FieldLists, b \in FieldLists}
    \cup {Obj([queries |-> x, items |-> Arr(l)]) :
             x \in {Lit("ab"), Null, EmptyObj}, l \in FieldLists}
    \cup {Obj([queries |-> x]) :
             x \in {Lit("ab"), Num(5), Obj([items |-> Arr(<<Lit("q")>>)])}}
    \cup {Obj([other |-> Arr(l)]) : l \in FieldLists}

\* -- raw entries of a normalised field
RawEntries ==
    {Lit("q"), Str(<<" ", "q", " ">>), Lit(" "), EmptyStr, Null, Num(5), EmptyObj,
     Obj([text |-> Lit("p"), query |-> Lit("q")]),
     Obj([text |-> Lit(" "), query |-> Lit("q")]),
     Obj([query |-> EmptyStr, q |-> Str(<<"r", " ">>)]),
     Obj([search_query |-> Lit("r")]),
     Obj([other |-> Lit("q")])}
RawLists == SeqsUpTo(RawEntries, MaxList)

\* -- one message with a citation list in each place extractCitations scans
CitePart(type, ref) ==
    Obj([content_type |-> Lit(type), title |-> Get(ref, "title"), url |-> Get(ref, "url")])
CitedMessage(l1, l2, l3, l4, l5, l6) ==
    [metadata |-> Obj([content_references |-> Arr(l1),
                       _cite_metadata |-> Obj([citations |-> Arr(l2),
                                               metadata_list |-> Arr(l3)]),
                       search_result_groups |-> Groups("search_results", l4)]),
     message |-> Obj([content |-> Obj([content_type |-> Lit("code"),
                                       parts |-> Arr(l5),
                                       result |-> JsonText(Obj([groups |->
                                                     Groups("entries", l6)]))])])]
CitedMessages ==
    {CitedMessage(l1, l2, l3, l4, l5, l6) :
        l1 \in {<<>>, <<RefT1U>>, <<RefV>>, <<EmptyObj>>},
        l2 \in {<<>>, <<RefT2U>>, <<RefT1>>},
        l3 \in {<<>>, <<RefT1U>>},
        l4 \in {<<>>, <<RefT2U>>, <<RefU>>},
        l5 \in {<<>>, <<CitePart("cite", RefT1U)>>, <<CitePart("text", RefT2U)>>},
        l6 \in {<<>>, <<RefT1U>>, <<RefT2U>>}}

NotRun == [done |-> FALSE]

Calls ==
    {[fn |-> "normalizeQueryField", arg |-> f, out |-> NotRun] : f \in FieldValues}
    \cup {[fn |-> "extractQueryStrings", arg |-> a, out |-> NotRun] : a \in RawLists}
    \cup {[fn |-> "extractCitations", arg |-> m, out |-> NotRun] : m \in CitedMessages}

InitCalls ==
    /\ pc = "idle"
    /\ pathname = <<>>
    /\ conversationId = Null
    /\ accessToken = Null
    /\ conversationData = Undef
    /\ queryResults = NotParsed
    /\ result = Pending
    /\ history = <<>>
    /\ call \in Calls
    /\ background = Undef
    /\ popup = ClosedPopup
    /\ requests = <<>>

Untouched ==
    UNCHANGED <<pc, pathname, conversationId, accessToken, conversationData, queryResults,
                result, history, background, popup, requests>>

CallNormalizeQueryField ==
    /\ call.fn = "normalizeQueryField"
    /\ ~call.out.done
    /\ call' = [call EXCEPT !.out = [done |-> TRUE, threw |-> FALSE,
                                     v |-> normalizeQueryField(call.arg)]]
    /\ Untouched

CallExtractQueryStrings ==
    /\ call.fn = "extractQueryStrings"
    /\ ~call.out.done
    /\ call' = [call EXCEPT !.out = [done |-> TRUE,
                                     threw |-> extractQueryStringsThrows(call.arg),
                                     v |-> extractQueryStrings(call.arg)]]
    /\ Untouched

CallExtractCitations ==
    /\ call.fn = "extractCitations"
    /\ ~call.out.done
    /\ call' = [call EXCEPT !.out =
                    [done |-> TRUE,
                     threw |-> extractCitations(call.arg.metadata, call.arg.message).threw,
                     v |-> extractCitations(call.arg.metadata, call.arg.message).citations]]
    /\ Untouched

NextCalls ==
    \/ CallNormalizeQueryField
    \/ CallExtractQueryStrings
    \/ CallExtractCitations

SpecCalls == InitCalls /\ [][NextCalls]_vars

-----------------------------------------------------------------------------
(* The message listener of the content script: every EXTRACT_SHADOW_QUERIES
   request gets an extractor of its own, and the extractions run side by
   side, their fetches settling in any order *)

\* most requests that are under way or answered
MaxRequests == 2

\* one extractor for every request
SharedExtractor(i) == 1

\* the extractor whose fields request i reads and writes: new ShadowQueryExtractor()
ExtractorOf(i) == i

\* the pages the requests are made on: two conversations and the home page
RequestPathnames == {<<<<"c">>, <<"a">>>>, <<<<"c">>, <<"b">>>>, <<>>}

\* the documents the server holds for conversation id: one with a search
\* query, one with a citation only, one without findings; queries, urls and
\* prompts carry the id; it holds none for the id null
ServerDocs(id) ==
    IF id = Null THEN {} ELSE
    {Doc(<<UserNode(<<"p">> \o id.s, Undef),
           FindingNode(Obj([search_queries |-> Strings(<<<<"q">> \o id.s>>)]),
                       TextContent(<<>>), Id("n1"))>>),
     Doc(<<UserNode(<<"p">> \o id.s, Undef),
           FindingNode(Obj([content_references |->
                               Arr(<<Obj([title |-> Lit("T"), url |-> Str(<<"u">> \o id.s)])>>)]),
                       TextContent(<<>>), Id("n1"))>>),
     Doc(<<UserNode(<<"p">> \o id.s, Undef)>>)}

\* the data of the Reports of the documents the server holds for conversation id
ServerReports(id) == {Report(id, parseConversation(d)).data : d \in ServerDocs(id)}

\* what /backend-api/conversation/${id} may answer
ServerResponses(id) ==
    {Rejected, Response(429, FALSE, Undef)} \cup {Response(200, TRUE, d) : d \in ServerDocs(id)}

TokenResponses ==
    {Rejected, Response(401, FALSE, Undef),
     Response(200, TRUE, Obj([accessToken |-> Lit("token")]))}

\* chrome.runtime.sendMessage({type: 'SHADOW_QUERIES_COMPLETE', data}) and
\* sendResponse(result)
Sent(type, payload) == [type |-> type, payload |-> payload]

\* the listener reports to the service worker after it has answered
RespondFirst(r) ==
    IF r.success /\ r.hasData
    THEN <<Sent("sendResponse", r), Sent("SHADOW_QUERIES_COMPLETE", r.data)>>
    ELSE <<Sent("sendResponse", r)>>

\* the then-callback of the listener: what it sends for the outcome r, in order
Replies(r) ==
    IF r.success /\ r.hasData
    THEN <<Sent("SHADOW_QUERIES_COMPLETE", r.data), Sent("sendResponse", r)>>
    ELSE <<Sent("sendResponse", r)>>

InitConcurrent ==
    /\ pc = "idle"
    /\ pathname = <<>>
    /\ conversationId = Null
    /\ accessToken = Null
    /\ conversationData = Undef
    /\ queryResults = NotParsed
    /\ result = Pending
    /\ history = <<>>
    /\ call = NoCall
    /\ background = Undef
    /\ popup = ClosedPopup
    /\ requests = <<>>

OnlyRequests ==
    UNCHANGED <<pc, pathname, conversationId, accessToken, conversationData, queryResults,
                result, history, call, background, popup>>

\* a request arrives on the page at path: the listener constructs the
\* extractor and extract() runs up to its first await
Request(path) ==
    /\ Len(requests) < MaxRequests
    /\ LET i == Len(requests) + 1
           id == getConversationIdFromURL(path)
           new == [pc |-> IF Truthy(id) THEN "awaitSession" ELSE "resolved",
                   pathname |-> path, conversationId |-> Null, accessToken |-> Null,
                   fetched |-> Null,
                   result |-> IF Truthy(id) THEN Pending ELSE Failure("NO_CONVERSATION"),
                   sent |-> <<>>]
       IN requests' = [Append(requests, new) EXCEPT ![ExtractorOf(i)].conversationId = id]
    /\ OnlyRequests

\* the session fetch of request i settles with r; on success extract() goes
\* on to fetchConversation(this.conversationId, this.accessToken)
TokenSettles(i, r) ==
    /\ requests[i].pc = "awaitSession"
    /\ LET t == fetchAccessToken(r)
       IN IF t.ok
          THEN requests' = [requests EXCEPT
                               ![ExtractorOf(i)].accessToken = t.token,
                               ![i].fetched = requests[ExtractorOf(i)].conversationId,
                               ![i].pc = "awaitConversation"]
          ELSE requests' = [requests EXCEPT
                               ![i].pc = "resolved",
                               ![i].result = IF t.error = "NOT_LOGGED_IN"
                                             THEN Failure("NOT_LOGGED_IN")
                                             ELSE Failure("AUTH_FAILED")]
    /\ OnlyRequests

\* what extract() resolves to once the conversation fetch has settled with r
ConversationOutcome(id, r) ==
    LET c == fetchConversation(r)
    IN IF ~c.ok THEN ConversationFailure(c.error)
       ELSE IF buildDebugSummaryThrows(c.data) THEN ConversationFailure("TypeError")
       ELSE IF parseConversation(c.data).threw THEN ConversationFailure("TypeError")
       ELSE Report(id, parseConversation(c.data))

\* the conversation fetch of request i settles with r
DocumentSettles(i, r) ==
    /\ requests[i].pc = "awaitConversation"
    /\ requests' = [requests EXCEPT
                        ![i].pc = "resolved",
                        ![i].result =
                            ConversationOutcome(requests[ExtractorOf(i)].conversationId, r)]
    /\ OnlyRequests

\* extractor.extract().then(...): the listener reports and answers
Respond(i) ==
    /\ requests[i].pc = "resolved"
    /\ requests' = [requests EXCEPT ![i].pc = "answered",
                                    ![i].sent = @ \o Replies(requests[i].result)]
    /\ OnlyRequests

\* the first two requests meet every page and every answer; a further one is
\* made on a conversation and has its fetches answered with a token and
\* with a document or not at all
PathnamesOf(i) == IF i <= 2 THEN RequestPathnames ELSE {<<<<"c">>, <<"a">>>>}
TokenResponsesOf(i) ==
    IF i <= 2 THEN TokenResponses ELSE {r \in TokenResponses : fetchAccessToken(r).ok}
ServerResponsesOf(i) ==
    IF i <= 2 THEN ServerResponses(requests[i].fetched)
    ELSE {r \in ServerResponses(requests[i].fetched) : r.rejected \/ r.status = 200}

NextConcurrent ==
    \/ \E path \in PathnamesOf(Len(requests) + 1) : Request(path)
    \/ \E i \in 1..Len(requests) : \E r \in TokenResponsesOf(i) : TokenSettles(i, r)
    \/ \E i \in 1..Len(requests) : \E r \in ServerResponsesOf(i) : DocumentSettles(i, r)
    \/ \E i \in 1..Len(requests) : Respond(i)

SpecConcurrent == InitConcurrent /\ [][NextConcurrent]_vars

\* a fetch settles (the browser resolves or rejects it) and a settled promise
\* runs its callbacks
SpecConcurrentFair ==
    /\ SpecConcurrent
    /\ \A i \in 1..MaxRequests :
           /\ WF_vars(i <= Len(requests) /\ \E r \in TokenResponsesOf(i) : TokenSettles(i, r))
           /\ WF_vars(i <= Len(requests) /\ requests[i].pc = "awaitConversation"
                      /\ \E r \in ServerResponsesOf(i) : DocumentSettles(i, r))
           /\ WF_vars(i <= Len(requests) /\ Respond(i))

-----------------------------------------------------------------------------
(* The background service worker (background.js) *)

\* most tabs open in the browser
MaxTabs == 1
\* most messages sent to the service worker and not yet delivered
MaxPending == 1

Tabs == 1..MaxTabs

Url(site, path) == [site |-> site, pathname |-> path]
ConversationA == Url("chatgpt.com", <<<<"c">>, <<"a">>>>)
ConversationB == Url("chatgpt.com", <<<<"c">>, <<"b">>>>)
ChatHome == Url("chatgpt.com", <<>>)
OtherSite == Url("example.com", <<>>)
\* the first tab visits every page, a further tab stays on another site
UrlsOf(t) ==
    IF t = 1 THEN {ConversationA, ConversationB, ChatHome, OtherSite}
    ELSE {OtherSite}

\* url.includes('chatgpt.com')
OnChatGPT(url) == url.site = "chatgpt.com"

\* url.match(/\/(?:c|g)\/([a-f0-9-]+)/): the captured id, or null
ConversationIdOf(url) == getConversationIdFromURL(url.pathname)

\* the scores calculateTechnicalScore gives: Math.max(0, Math.min(100, score))
ScoresOf(t) == IF t = 1 THEN {0, 49, 50, 79, 80, 100} ELSE {50}

NoBadge == [text |-> "", color |-> ""]
FanOutBadge(count) == [text |-> IF count > 0 THEN "FO" ELSE "", color |-> "#00AA00"]

\* thresholds that leave the boundary scores to the lower badge
ScoreBadgeAbove(score) ==
    IF score > 80 THEN [text |-> "check", color |-> "#00AA00"]
    ELSE IF score > 50 THEN [text |-> "!", color |-> "#FFA500"]
    ELSE [text |-> "cross", color |-> "#FF0000"]

\* the check mark, the exclamation mark or the cross, by score
ScoreBadge(score) ==
    IF score >= 80 THEN [text |-> "check", color |-> "#00AA00"]
    ELSE IF score >= 50 THEN [text |-> "!", color |-> "#FFA500"]
    ELSE [text |-> "cross", color |-> "#FF0000"]

\* the service worker after construction, with the tabs at the given urls;
\* a Map without an entry for t holds Undef at t
FreshBackground(urls) ==
    [analysisResults |-> [t \in Tabs |-> Undef],
     shadowQueryResults |-> [t \in Tabs |-> Undef],
     badge |-> [t \in Tabs |-> NoBadge],
     url |-> urls,
     pending |-> {},
     updated |-> 0]

\* the Report data the content scripts send: with a query, and without any
SentReports(id) == {data \in ServerReports(id) : data.totalCitations = 0}

\* updateBadge(tabId); updated records the tab it ran for
updateBadge(bg, t) ==
    IF bg.shadowQueryResults[t] # Undef
    THEN [bg EXCEPT !.badge[t] = FanOutBadge(bg.shadowQueryResults[t].totalShadowQueries),
                    !.updated = t]
    ELSE IF bg.analysisResults[t] = Undef THEN [bg EXCEPT !.updated = t]
    ELSE [bg EXCEPT !.badge[t] = ScoreBadge(bg.analysisResults[t].score), !.updated = t]

\* handleAnalysisComplete(analysisData, tabId)
handleAnalysisComplete(bg, score, t) ==
    updateBadge([bg EXCEPT !.analysisResults[t] = [score |-> score]], t)

\* { ...data, timestamp: Date.now() }
Stamped(data) ==
    [conversationId |-> data.conversationId, results |-> data.results,
     totalShadowQueries |-> data.totalShadowQueries, totalCitations |-> data.totalCitations,
     timestamp |-> "now"]

\* the runtime.onMessage listener for a message of a content script
OnMessage(bg, m) ==
    IF m.type = "ANALYSIS_COMPLETE" THEN handleAnalysisComplete(bg, m.score, m.tab)
    ELSE updateBadge([bg EXCEPT !.shadowQueryResults[m.tab] = Stamped(m.data)], m.tab)

\* the first half of the tabs.onUpdated listener: a url change on a ChatGPT tab
ClearStale(bg, t, url) ==
    IF url # Undef /\ OnChatGPT(url) /\ bg.shadowQueryResults[t] # Undef
       /\ bg.shadowQueryResults[t].conversationId # ConversationIdOf(url)
    THEN [bg EXCEPT !.shadowQueryResults[t] = Undef, !.badge[t].text = ""]
    ELSE bg

\* the tabs.onUpdated listener
OnUpdated(bg, t, changeInfo) ==
    IF changeInfo.status = "complete"
    THEN updateBadge(ClearStale(bg, t, changeInfo.url), t)
    ELSE ClearStale(bg, t, changeInfo.url)

\* the tabs.onRemoved listener
OnRemoved(bg, t) ==
    [bg EXCEPT !.analysisResults[t] = Undef, !.shadowQueryResults[t] = Undef]

\* what the browser reports of tab t: a new url, or that the page has loaded
ChangeInfos(t) ==
    {[url |-> u, status |-> "loading"] : u \in UrlsOf(t) \ {background.url[t]}}
    \cup {[url |-> Undef, status |-> "complete"]}

InitBackground ==
    /\ pc = "idle"
    /\ pathname = <<>>
    /\ conversationId = Null
    /\ accessToken = Null
    /\ conversationData = Undef
    /\ queryResults = NotParsed
    /\ result = Pending
    /\ history = <<>>
    /\ call = NoCall
    /\ background \in {FreshBackground(urls) :
                           urls \in {u \in [Tabs -> {ConversationA, OtherSite}] :
                                         \A t \in Tabs : u[t] \in UrlsOf(t)}}
    /\ popup = ClosedPopup
    /\ requests = <<>>

OnlyBackground ==
    UNCHANGED <<pc, pathname, conversationId, accessToken, conversationData, queryResults,
                result, history, call, popup, requests>>

\* the visibility content script of tab t, which runs once in a page, sends
\* its analysis
SendAnalysis(t, score) ==
    /\ background.url[t] # Undef
    /\ \A m \in background.pending : ~(m.type = "ANALYSIS_COMPLETE" /\ m.tab = t)
    /\ Cardinality(background.pending) < MaxPending
    /\ background' = [background EXCEPT !.updated = 0,
                         !.pending = @ \cup {[type |-> "ANALYSIS_COMPLETE", tab |-> t,
                                              score |-> score]}]
    /\ OnlyBackground

\* an extraction started in tab t, a ChatGPT conversation, ends with the
\* Report data: the listener of the content script sends it on
SendShadowQueries(t, data) ==
    /\ background.url[t] # Undef
    /\ OnChatGPT(background.url[t])
    /\ ConversationIdOf(background.url[t]) # Null
    /\ Cardinality(background.pending) < MaxPending
    /\ background' = [background EXCEPT !.updated = 0,
                         !.pending = @ \cup {[type |-> "SHADOW_QUERIES_COMPLETE", tab |-> t,
                                              data |-> data]}]
    /\ OnlyBackground

\* the service worker receives a message
Deliver(m) ==
    /\ background' = OnMessage([background EXCEPT !.pending = @ \ {m}, !.updated = 0], m)
    /\ OnlyBackground

\* tab t navigates or finishes loading
TabUpdated(t, changeInfo) ==
    /\ background.url[t] # Undef
    /\ background' = OnUpdated([background EXCEPT
                                    !.url[t] = IF changeInfo.url # Undef THEN changeInfo.url
                                               ELSE @,
                                    !.updated = 0],
                               t, changeInfo)
    /\ OnlyBackground

\* tab t is closed
TabRemoved(t) ==
    /\ background.url[t] # Undef
    /\ background' = OnRemoved([background EXCEPT !.url[t] = Undef, !.updated = 0], t)
    /\ OnlyBackground

NextBackground ==
    \/ \E t \in Tabs : \E score \in ScoresOf(t) : SendAnalysis(t, score)
    \/ \E t \in Tabs : background.url[t] # Undef /\
           \E data \in SentReports(ConversationIdOf(background.url[t])) :
               SendShadowQueries(t, data)
    \/ \E m \in background.pending : Deliver(m)
    \/ \E t \in Tabs : \E changeInfo \in ChangeInfos(t) : TabUpdated(t, changeInfo)
    \/ \E t \in Tabs : TabRemoved(t)

SpecBackground == InitBackground /\ [][NextBackground]_vars

-----------------------------------------------------------------------------
(* The popup (PopupManager): the shadow-query view and the visibility view of
   the popup opened on the first tab, each followed in a specification of its
   own.  The markup of the popup is not part of
   the sources: the view starts with the Analyze block shown, the other
   blocks hidden and the button enabled.  The popup stays open and its tab
   stays on its page. *)

\* the tab the popup is opened on
PopupTab == 1

\* the blocks of the shadow-query view that are displayed
InitialView ==
    [initial |-> TRUE, loading |-> FALSE, results |-> FALSE, error |-> FALSE,
     notChatGPT |-> FALSE]

\* the PopupManager after its constructor, init() waiting for chrome.tabs.query;
\* retryCount, not set yet, is read by !this.retryCount only, as 0 is
NewPopup ==
    [open |-> TRUE, pcInit |-> "query", pcLoad |-> "idle", pcAnalyze |-> "idle",
     url |-> Undef, isChatGPT |-> FALSE, tab |-> "none",
     visibilityLoaded |-> FALSE, sqViewInitialized |-> FALSE,
     currentConversationId |-> Undef, shadowQueryData |-> Null,
     sq |-> InitialView, message |-> "none", disabled |-> FALSE,
     response |-> Undef, retryCount |-> 0, emptyPolls |-> 0,
     visibility |-> "loading", results |-> Undef]

\* any cached result is displayed, whatever its conversation
UsesAnyCache(results, id) == results # Undef

\* response.results && response.results.conversationId === this.currentConversationId
UsesCache(results, id) == results # Undef /\ results.conversationId = id

\* displayShadowQueries(data)
displayShadowQueries(p, data) ==
    [p EXCEPT !.shadowQueryData = data,
              !.sq = [@ EXCEPT !.initial = FALSE, !.loading = FALSE, !.error = FALSE,
                               !.notChatGPT = FALSE, !.results = TRUE]]

\* showSQDebug(message): the text on the blue ground
showSQDebug(p) ==
    [p EXCEPT !.sq = [@ EXCEPT !.initial = FALSE, !.loading = FALSE, !.results = FALSE,
                               !.notChatGPT = FALSE, !.error = TRUE],
              !.message = "guidance"]

\* showSQError(message): the text on the yellow ground
showSQError(p) ==
    [p EXCEPT !.sq = [@ EXCEPT !.initial = FALSE, !.loading = FALSE, !.results = FALSE,
                               !.error = TRUE],
              !.message = "error"]

\* loadResults() up to its await
loadResults(p) ==
    [p EXCEPT !.visibilityLoaded = TRUE,
              !.retryCount = IF @ = 0 THEN 0 ELSE @,
              !.pcLoad = "awaitAnalysis"]

\* initShadowQueryView() up to its await, or to its return on another site
initShadowQueryView(p) ==
    IF ~p.isChatGPT
    THEN [p EXCEPT !.sqViewInitialized = TRUE, !.pcInit = "done",
                   !.sq = [@ EXCEPT !.initial = FALSE, !.notChatGPT = TRUE]]
    ELSE [p EXCEPT !.sqViewInitialized = TRUE, !.pcInit = "awaitCache",
                   !.currentConversationId = ConversationIdOf(p.url)]

\* response.success && response.data && response.data.totalShadowQueries > 0
ShowsList(r) == r.success /\ r.hasData /\ r.data.totalShadowQueries > 0

\* the button is enabled again at the end of the try block only
ReenabledUnlessThrown(p, threw) == IF threw THEN p ELSE [p EXCEPT !.disabled = FALSE]

\* this.sqAnalyzeBtn.disabled = false, after the try/catch
Reenabled(p, threw) == [p EXCEPT !.disabled = FALSE]

\* the count goes on after a new analysis was triggered
KeepCounting(count) == count

\* this.retryCount = 0
ResetCount(count) == 0

\* how the page at url may deal with the popup's request: no content script
\* listens, or extract() ends early, or it ends after its conversation fetch
\* was answered with r
ExtractionRuns(url) ==
    IF ~OnChatGPT(url) THEN {[kind |-> "no listener", r |-> Rejected]}
    ELSE IF ConversationIdOf(url) = Null
    THEN {[kind |-> "no listener", r |-> Rejected], [kind |-> "early", r |-> Rejected]}
    ELSE {[kind |-> "no listener", r |-> Rejected], [kind |-> "early", r |-> Rejected]}
         \cup {[kind |-> "fetched", r |-> r] : r \in ServerResponses(ConversationIdOf(url))}

\* what chrome.tabs.sendMessage gives the popup: it rejects when no content
\* script listens, else it resolves to the outcome of extract() on the page
ExtractionOutcome(url, run) ==
    IF run.kind = "no listener" THEN [threw |-> TRUE, result |-> Pending]
    ELSE IF run.kind = "early"
    THEN [threw |-> FALSE,
          result |-> IF ConversationIdOf(url) = Null THEN Failure("NO_CONVERSATION")
                     ELSE Failure("NOT_LOGGED_IN")]
    ELSE [threw |-> FALSE, result |-> ConversationOutcome(ConversationIdOf(url), run.r)]

\* what the service worker may hold for the tab when the popup opens: nothing,
\* or the Report of a conversation the tab is or was on
CachedReports ==
    {Undef} \cup {Stamped(data) : data \in SentReports(Str(<<"a">>)) \cup SentReports(Str(<<"b">>))}

InitPopup ==
    /\ pc = "idle"
    /\ pathname = <<>>
    /\ conversationId = Null
    /\ accessToken = Null
    /\ conversationData = Undef
    /\ queryResults = NotParsed
    /\ result = Pending
    /\ history = <<>>
    /\ call = NoCall
    /\ \E url \in {ConversationA, ChatHome, OtherSite} : \E cached \in CachedReports :
           background = [FreshBackground([t \in Tabs |-> IF t = PopupTab THEN url
                                                         ELSE OtherSite])
                             EXCEPT !.shadowQueryResults[PopupTab] = cached]
    /\ popup = NewPopup
    /\ requests = <<>>

OnlyPopup ==
    UNCHANGED <<pc, pathname, conversationId, accessToken, conversationData, queryResults,
                result, history, call, background, requests>>

\* init() after chrome.tabs.query has answered
PopupInit ==
    /\ popup.pcInit = "query"
    /\ LET url == background.url[PopupTab]
           p == [popup EXCEPT !.url = url, !.isChatGPT = OnChatGPT(url), !.pcInit = "idle"]
       IN popup' = IF p.isChatGPT
                   THEN initShadowQueryView([p EXCEPT !.tab = "shadow-queries"])
                   ELSE loadResults([p EXCEPT !.tab = "visibility"])
    /\ OnlyPopup

\* a click on a tab button: switchTab and the lazy load
ClickTab(name) ==
    /\ popup.pcInit # "query"
    /\ LET p == [popup EXCEPT !.tab = name]
       IN popup' = IF name = "visibility" /\ ~p.visibilityLoaded THEN loadResults(p)
                   ELSE IF name = "shadow-queries" /\ ~p.sqViewInitialized
                   THEN initShadowQueryView(p)
                   ELSE p
    /\ popup' # popup
    /\ OnlyPopup

\* GET_SHADOW_QUERIES is answered: the rest of initShadowQueryView
CacheResponse ==
    /\ popup.pcInit = "awaitCache"
    /\ LET results == background.shadowQueryResults[PopupTab]
           p == [popup EXCEPT !.pcInit = "done"]
       IN popup' = IF UsesCache(results, popup.currentConversationId)
                   THEN displayShadowQueries(p, results)
                   ELSE p
    /\ OnlyPopup

\* a click on Analyze: triggerShadowAnalysis up to its await
ClickAnalyze ==
    /\ popup.pcInit # "query"
    /\ ~popup.disabled
    /\ popup' = [popup EXCEPT
                     !.sq = [@ EXCEPT !.initial = FALSE, !.error = FALSE, !.results = FALSE,
                                      !.loading = TRUE],
                     !.disabled = TRUE,
                     !.response = Undef,
                     !.pcAnalyze = "awaitExtract"]
    /\ OnlyPopup

\* the try block of triggerShadowAnalysis after the await, and its catch
AfterExtract(p, o) ==
    IF o.threw THEN showSQError([p EXCEPT !.sq.loading = FALSE])
    ELSE IF ShowsList(o.result)
    THEN displayShadowQueries([p EXCEPT !.sq.loading = FALSE], o.result.data)
    ELSE IF o.result.success /\ o.result.hasData
    THEN showSQDebug([p EXCEPT !.sq.loading = FALSE])
    ELSE showSQError([p EXCEPT !.sq.loading = FALSE])

\* the request of the popup settles with o; a successful outcome that carries
\* data has been sent to the service worker before
ExtractResponse(o) ==
    /\ popup.pcAnalyze = "awaitExtract"
    /\ popup' = Reenabled([AfterExtract(popup, o) EXCEPT !.response = o,
                                                         !.pcAnalyze = "idle"],
                          o.threw)
    /\ background' = IF ~o.threw /\ o.result.success /\ o.result.hasData
                     THEN OnMessage(background,
                                    [type |-> "SHADOW_QUERIES_COMPLETE", tab |-> PopupTab,
                                     data |-> o.result.data])
                     ELSE background
    /\ UNCHANGED <<pc, pathname, conversationId, accessToken, conversationData, queryResults,
                   result, history, call, requests>>

\* GET_ANALYSIS is answered: the rest of loadResults up to its next await or
\* to its timer
AnalysisResponse ==
    /\ popup.pcLoad = "awaitAnalysis"
    /\ LET results == background.analysisResults[PopupTab]
       IN popup' = IF results # Undef
                   THEN [popup EXCEPT !.pcLoad = "done", !.visibility = "results",
                                      !.results = results]
                   ELSE [popup EXCEPT !.retryCount = @ + 1,
                                      !.emptyPolls = @ + 1,
                                      !.pcLoad = IF popup.retryCount + 1 >= 10
                                                 THEN "awaitTrigger" ELSE "timer"]
    /\ OnlyPopup

\* triggerNewAnalysis() ends, the scripts injected or executeScript having
\* thrown, and loadResults sets its timer
TriggerSettles(injected) ==
    /\ popup.pcLoad = "awaitTrigger"
    /\ popup' = [popup EXCEPT !.visibility = IF injected THEN @ ELSE "error",
                              !.retryCount = ResetCount(@),
                              !.emptyPolls = 0,
                              !.pcLoad = "timer"]
    /\ OnlyPopup

\* setTimeout(() => this.loadResults(), 500) fires
TimerFires ==
    /\ popup.pcLoad = "timer"
    /\ popup' = loadResults(popup)
    /\ OnlyPopup

\* the service worker handles the ANALYSIS_COMPLETE of the tab's page
AnalysisStored(score) ==
    /\ popup.open
    /\ background' = handleAnalysisComplete(background, score, PopupTab)
    /\ background' # background
    /\ UNCHANGED <<pc, pathname, conversationId, accessToken, conversationData, queryResults,
                   result, history, call, popup, requests>>

\* the shadow-query view: the clicks of the user and the answers to the
\* popup's messages; the polls of the visibility view are followed in
\* SpecPolling
NextPopup ==
    \/ PopupInit
    \/ \E name \in {"visibility", "shadow-queries"} : ClickTab(name)
    \/ CacheResponse
    \/ ClickAnalyze
    \/ \E run \in ExtractionRuns(background.url[PopupTab]) :
           ExtractResponse(ExtractionOutcome(background.url[PopupTab], run))

SpecPopup == InitPopup /\ [][NextPopup]_vars

\* a message is answered: chrome.runtime.sendMessage and chrome.tabs.sendMessage
\* settle
SpecPopupFair ==
    /\ SpecPopup
    /\ WF_vars(CacheResponse)
    /\ WF_vars(\E run \in ExtractionRuns(background.url[PopupTab]) :
           ExtractResponse(ExtractionOutcome(background.url[PopupTab], run)))

\* the popup opened on a tab for which nothing is held yet
InitPolling ==
    /\ pc = "idle"
    /\ pathname = <<>>
    /\ conversationId = Null
    /\ accessToken = Null
    /\ conversationData = Undef
    /\ queryResults = NotParsed
    /\ result = Pending
    /\ history = <<>>
    /\ call = NoCall
    /\ \E url \in {ConversationA, OtherSite} :
           background = FreshBackground([t \in Tabs |-> IF t = PopupTab THEN url
                                                        ELSE OtherSite])
    /\ popup = NewPopup
    /\ requests = <<>>

\* the visibility view: the polls of loadResults, the analysis arriving at
\* the service worker at any moment
NextPolling ==
    \/ PopupInit
    \/ \E name \in {"visibility", "shadow-queries"} : ClickTab(name)
    \/ CacheResponse
    \/ AnalysisResponse
    \/ \E injected \in BOOLEAN : TriggerSettles(injected)
    \/ TimerFires
    \/ \E score \in {50, 80} : AnalysisStored(score)

\* a message is answered, executeScript settles and a timer fires
SpecPolling ==
    /\ InitPolling
    /\ [][NextPolling]_vars
    /\ WF_vars(CacheResponse)
    /\ WF_vars(AnalysisResponse)
    /\ WF_vars(\E injected \in BOOLEAN : TriggerSettles(injected))
    /\ WF_vars(TimerFires)

-----------------------------------------------------------------------------
(* Properties *)

\* extract() got a document and parseConversation ran on it
ParseRan ==
    pc = "done" /\ conversationData # Undef /\ ~buildDebugSummaryThrows(conversationData)

\* parseConversation returned a results list
Returned == ParseRan /\ ~queryResults.threw

Indexes(seq) == 1..Len(seq)

\* two texts are equal case-insensitively when their folds are equal
CaseFold(s) == [i \in 1..Len(s) |-> IF s[i] \in {"Q", "R", "P"} THEN LowerUnit(s[i]) ELSE s[i]]

\* the entries of a result's shadowQueries whose text is t, case folded
SameText(r, t) ==
    {k \in Indexes(r.shadowQueries) : CaseFold(r.shadowQueries[k].text) = CaseFold(t)}

\* the result emitted for a group of the first pass
ResultsOf(g) ==
    {i \in Indexes(queryResults.results) : queryResults.results[i].userPrompt = g.userPrompt}

\* C1 - hidden precedence: when a text (compared case-insensitively) was
\* collected into a prompt group from a hidden-sourced field and also from a
\* visible-sourced field, in any messages and any order, the group's result
\* has exactly one entry with that text and the entry has hidden = TRUE.
C1_HiddenPrecedence ==
    Returned =>
        \A gi \in Indexes(queryResults.groups) :
            LET g == queryResults.groups[gi]
            IN \A i \in Indexes(g.shadowStrings) : \A j \in Indexes(g.visibleStrings) :
                   CaseFold(g.shadowStrings[i]) = CaseFold(g.visibleStrings[j]) =>
                       /\ Cardinality(ResultsOf(g)) = 1
                       /\ \A ri \in ResultsOf(g) :
                              LET r == queryResults.results[ri]
                              IN /\ Cardinality(SameText(r, g.shadowStrings[i])) = 1
                                 /\ \A k \in SameText(r, g.shadowStrings[i]) :
                                        r.shadowQueries[k].hidden

HiddenOnly(text, parent) ==
    FindingNode(Obj([search_model_queries |-> Strings(<<text>>),
                     search_queries |-> Strings(<<>>)]), TextContent(<<>>), parent)
VisibleOnly(text, parent) ==
    FindingNode(Obj([search_model_queries |-> Strings(<<>>),
                     search_queries |-> Strings(<<text>>)]), TextContent(<<>>), parent)

\* a first message yields "q" as visible, a later message under the same
\* prompt yields "Q" as hidden: one entry, "Q", hidden
C1_Witness ==
    /\ Returned
    /\ Get(Get(conversationData, "mapping"), "n3") = VisibleOnly(<<"q">>, Id("n1"))
    /\ Get(Get(conversationData, "mapping"), "n4") = HiddenOnly(<<"Q">>, Id("n1"))
    /\ Len(queryResults.results) = 1
    /\ queryResults.results[1].shadowQueries = <<[text |-> <<"Q">>, hidden |-> TRUE]>>

\* C2 - query uniqueness: no two shadowQueries entries of a PromptGroup have
\* texts that are equal when compared case-insensitively.
C2_QueryUniqueness ==
    Returned =>
        \A ri \in Indexes(queryResults.results) :
            LET qs == queryResults.results[ri].shadowQueries
            IN \A k1, k2 \in Indexes(qs) :
                   k1 # k2 => CaseFold(qs[k1].text) # CaseFold(qs[k2].text)

\* a group that collected "q" and "Q" and another text, from several fields
C2_Witness ==
    /\ Returned
    /\ \E gi \in Indexes(queryResults.groups) :
           LET g == queryResults.groups[gi]
           IN /\ \E i, j \in Indexes(g.shadowStrings \o g.visibleStrings) :
                     /\ i # j
                     /\ (g.shadowStrings \o g.visibleStrings)[i] = <<"q">>
                     /\ (g.shadowStrings \o g.visibleStrings)[j] = <<"Q">>
              /\ \A ri \in ResultsOf(g) : Len(queryResults.results[ri].shadowQueries) = 2


\* the dedup key the Report is specified with: url if non-empty, else title
ReportKey(c) == IF c.url # EmptyStr THEN c.url ELSE c.title

\* a citation without its refIndex
Bare(c) == [title |-> c.title, url |-> c.url, type |-> c.type]

\* the first citation with key k among those accumulated for a group
FirstWithKey(cs, k) ==
    cs[CHOOSE i \in Indexes(cs) :
           ReportKey(cs[i]) = k /\ \A j \in 1..(i - 1) : ReportKey(cs[j]) # k]

\* C3 - citation deduplication across messages: in every PromptGroup no two
\* citations share a dedup key (url if non-empty, else title), every key
\* accumulated for the group survives, and the survivor for a key is the
\* first citation with that key in scan order.
C3_CitationDedup ==
    Returned =>
        \A gi \in Indexes(queryResults.groups) :
            LET g == queryResults.groups[gi]
            IN \A ri \in ResultsOf(g) :
                   LET cs == queryResults.results[ri].citations
                   IN /\ \A k1, k2 \in Indexes(cs) :
                             k1 # k2 => ReportKey(cs[k1]) # ReportKey(cs[k2])
                      /\ \A i \in Indexes(g.citations) :
                             \E k \in Indexes(cs) : ReportKey(cs[k]) = ReportKey(g.citations[i])
                      /\ \A k \in Indexes(cs) :
                             Bare(cs[k]) = Bare(FirstWithKey(g.citations, ReportKey(cs[k])))

CitesOnly(ref, parent) ==
    FindingNode(Obj([content_references |-> Arr(<<ref>>)]), TextContent(<<>>), parent)

\* two messages under the same prompt cite url U with titles T1 then T2: one
\* citation, titled T1
C3_Witness ==
    /\ Returned
    /\ Get(Get(conversationData, "mapping"), "n3") = CitesOnly(RefT1U, Id("n2"))
    /\ Get(Get(conversationData, "mapping"), "n4") = CitesOnly(RefT2U, Id("n2"))
    /\ Len(queryResults.results) = 1
    /\ Len(queryResults.results[1].citations) = 1
    /\ queryResults.results[1].citations[1].title = Lit("T1")
    /\ queryResults.results[1].citations[1].refIndex = 1

\* C4 - refIndex contiguity: the refIndex values of a PromptGroup's citations,
\* read in list order, are 1, 2, ..., N.
C4_RefIndexContiguous ==
    Returned =>
        \A ri \in Indexes(queryResults.results) :
            \A k \in Indexes(queryResults.results[ri].citations) :
                queryResults.results[ri].citations[k].refIndex = k

\* a group whose second citation came from a second message, where
\* extractCitations had numbered it 1
C4_Witness ==
    /\ Returned
    /\ \E gi \in Indexes(queryResults.groups) :
           LET g == queryResults.groups[gi]
           IN /\ Len(g.citations) = 2
              /\ g.citations[2].refIndex = 1
              /\ \A ri \in ResultsOf(g) :
                     /\ Len(queryResults.results[ri].citations) = 2
                     /\ queryResults.results[ri].citations[2].refIndex = 2

\* the node ids of the fetched mapping
MappingIds ==
    IF Nullish(conversationData) \/ Get(conversationData, "mapping").t # "obj" THEN {}
    ELSE {Id(k) : k \in DOMAIN Get(conversationData, "mapping").o}

NoRepeat(seq) == \A i, j \in Indexes(seq) : i # j => seq[i] # seq[j]

\* C5 - ancestor-walk termination: every run of findParentUserPrompt ends by
\* itself (no run is cut off), runs its loop body for no node id twice, and
\* takes at most as many steps as the mapping has node ids plus one id that
\* is absent from the mapping.
C5_WalkTerminates ==
    ParseRan =>
        \A wi \in Indexes(queryResults.walks) :
            LET w == queryResults.walks[wi].walk
            IN /\ ~w.capped
               /\ NoRepeat(w.trace)
               /\ Cardinality({i \in Indexes(w.trace) : w.trace[i] \notin MappingIds}) <= 1
               /\ Len(w.trace) <= Cardinality(MappingIds) + 1

\* a walk around a parent cycle through every node, no user message on it:
\* it stops at the id it has seen
C5_Witness ==
    /\ ParseRan
    /\ \E wi \in Indexes(queryResults.walks) :
           LET w == queryResults.walks[wi].walk
           IN /\ Len(w.trace) = Cardinality(MappingIds)
              /\ Len(w.trace) >= 3
              /\ \A i \in Indexes(w.trace) : w.trace[i] \in MappingIds
              /\ ~w.found
              /\ w.prompt = Sentinel


\* the fetched mapping and its nodes in scan order
FetchedMapping == Get(conversationData, "mapping")
FetchedNodes == ObjectValues(FetchedMapping)

\* node.parent read off the document; an absent node has none
ParentOf(node) == IF node.t = "obj" /\ "parent" \in DOMAIN node.o THEN node.o.parent ELSE Undef

\* the nearest node with a user-authored message met by following parent
\* links from id for at most k links, Undef when there is none: a chain that
\* takes more links than there are ids goes round a cycle
RECURSIVE NearestUser(_, _, _)
NearestUser(mapping, id, k) ==
    IF k = 0 \/ ~Truthy(id) THEN Undef
    ELSE IF IsUserNode(Lookup(mapping, id)) THEN Lookup(mapping, id)
    ELSE NearestUser(mapping, ParentOf(Lookup(mapping, id)), k - 1)

\* the user message the walk logged as e should resolve to
ResolvedUser(e) ==
    NearestUser(FetchedMapping, ParentOf(FetchedNodes[e.node]), Cardinality(MappingIds) + 1)

\* the plain-string parts of a user node, joined with one space and trimmed
JoinedText(node) ==
    LET parts == Get(Get(Get(node, "message"), "content"), "parts")
        strs == SelectSeq(parts.a, LAMBDA x : x.t = "str")
    IN Trim(JoinSpace([i \in Indexes(strs) |-> strs[i].s]))

\* the walk w returned what the chain to user node u (or to no user) gives
ResolvesTo(w, u) ==
    IF u = Undef THEN ~w.found /\ w.prompt = Sentinel
    ELSE w.found /\ w.prompt = JoinedText(u)

\* the findings of the node the walk ran for are reported under its prompt
ReportedUnder(w) ==
    Returned => \E ri \in Indexes(queryResults.results) :
                    queryResults.results[ri].userPrompt = w.prompt

\* C6 (as stated) - prompt resolution result: the resolved prompt of a node
\* with findings is the joined, trimmed text of the nearest user-authored
\* message up the parent links, message-less nodes being stepped over, and the
\* sentinel "(unknown prompt)" is returned if and only if the chain ends
\* before any user-authored message is reached.
C6_SentinelIffNoUser ==
    ParseRan =>
        \A wi \in Indexes(queryResults.walks) :
            ~queryResults.walks[wi].walk.threw =>
                /\ ResolvesTo(queryResults.walks[wi].walk, ResolvedUser(queryResults.walks[wi]))
                /\ (queryResults.walks[wi].walk.prompt = Sentinel
                        <=> ResolvedUser(queryResults.walks[wi]) = Undef)

\* C6 (amended) - prompt resolution result: the resolved prompt of a node with
\* findings is the joined, trimmed text of the nearest user-authored message
\* up the parent links, message-less nodes being stepped over; when the chain
\* ends before any user-authored message the sentinel is returned; the
\* findings are reported under the resolved prompt.  A user message whose
\* text is "(unknown prompt)" resolves to that same text.
C6_PromptResolution ==
    ParseRan =>
        \A wi \in Indexes(queryResults.walks) :
            ~queryResults.walks[wi].walk.threw =>
                /\ ResolvesTo(queryResults.walks[wi].walk, ResolvedUser(queryResults.walks[wi]))
                /\ ReportedUnder(queryResults.walks[wi].walk)

\* the walk steps over a node without a message and reaches a user message
\* that reads "(unknown prompt)"
C6_Witness ==
    /\ Returned
    /\ Len(queryResults.walks) = 1
    /\ Len(queryResults.walks[1].walk.trace) = 2
    /\ ~Truthy(Get(Lookup(FetchedMapping, queryResults.walks[1].walk.trace[1]), "message"))
    /\ queryResults.walks[1].walk.found
    /\ queryResults.walks[1].walk.prompt = Sentinel
    /\ queryResults.results[1].userPrompt = Sentinel

\* the document's mapping is absent or not a keyed structure
MappingAbsent(data) == Get(data, "mapping").t \in {"undef", "null", "bool", "num", "str"}

\* the Report with no results and zero totals
EmptyReport(r) ==
    /\ r.success
    /\ r.hasData
    /\ r.data.results = <<>>
    /\ r.data.totalShadowQueries = 0
    /\ r.data.totalCitations = 0

\* C7 - empty-graph behaviour: extract() on a fetched document whose mapping is
\* absent or not a keyed structure returns the failure EXTRACTION_FAILED, and
\* on a document whose mapping is present but empty returns a successful
\* Report with no results and zero totals.
C7_EmptyGraph ==
    (pc = "done" /\ conversationData.t = "obj") =>
        /\ MappingAbsent(conversationData) => result = Failure("EXTRACTION_FAILED")
        /\ FetchedMapping = EmptyObj => EmptyReport(result)

\* C8 - per-node exception safety: for a document whose mapping is a keyed
\* structure, no malformed node aborts the scan: parseConversation completes
\* and extract() returns no failure.
C8_PerNodeSafety ==
    (pc = "done" /\ conversationData.t = "obj" /\ FetchedMapping.t = "obj") =>
        /\ ~buildDebugSummaryThrows(conversationData)
        /\ ~queryResults.threw
        /\ result.success

\* a raw result string that JSON.parse rejects
Unparseable(v) == v.t = "str" /\ Truthy(v) /\ ~JSONParse(v).ok

HasUnparseableResult(node) ==
    Unparseable(Get(Get(Get(node, "message"), "content"), "result"))

WithoutKey(v, key) == Obj([k \in DOMAIN v.o \ {key} |-> v.o[k]])

\* the node without its non-parseable content.result
WithoutResult(node) ==
    IF ~HasUnparseableResult(node) THEN node
    ELSE Obj([k \in DOMAIN node.o |->
                 IF k # "message" THEN node.o[k]
                 ELSE Obj([j \in DOMAIN node.o.message.o |->
                              IF j # "content" THEN node.o.message.o[j]
                              ELSE WithoutKey(node.o.message.o.content, "result")])])

\* the document with every non-parseable content.result removed
ResultsRemoved(data) ==
    Obj([k \in DOMAIN data.o |->
            IF k # "mapping" THEN data.o[k]
            ELSE Obj([n \in DOMAIN data.o.mapping.o |-> WithoutResult(data.o.mapping.o[n])])])

FetchedUnparseable ==
    /\ ParseRan
    /\ FetchedMapping.t = "obj"
    /\ \E i \in Indexes(FetchedNodes) : HasUnparseableResult(FetchedNodes[i])

\* C9 - a non-parseable raw result string is no data: on a document with such
\* a content.result nothing is raised, and the groups and the results are
\* those of the same document without that field.
C9_UnparseableResult ==
    FetchedUnparseable =>
        /\ queryResults = parseConversation(ResultsRemoved(conversationData))
        /\ ~queryResults.threw
        /\ result.success

\* a tether message with a non-parseable result and a query of its own after
\* a message with a query and a citation: both are reported
C9_Witness ==
    /\ FetchedUnparseable
    /\ HasUnparseableResult(FetchedNodes[3])
    /\ Get(Get(Get(FetchedNodes[3], "message"), "content"), "content_type")
           = Lit("tether_browsing_display")
    /\ result.success
    /\ Len(result.data.results) = 1
    /\ result.data.results[1].shadowQueries
           = <<[text |-> <<"r">>, hidden |-> TRUE], [text |-> <<"q">>, hidden |-> FALSE]>>
    /\ Len(result.data.results[1].citations) = 1

FailureKinds ==
    {"NO_CONVERSATION", "NOT_LOGGED_IN", "AUTH_FAILED", "TOKEN_EXPIRED", "RATE_LIMITED",
     "EXTRACTION_FAILED"}

\* both fetches succeeded and parseConversation returned an empty list
ParsedNothing ==
    /\ accessToken # Null
    /\ Returned
    /\ queryResults.results = <<>>

\* C10 - NO_SEARCH_QUERIES is a successful, distinguishable outcome: extract()
\* returns error NO_SEARCH_QUERIES exactly when both fetches succeeded and
\* parseConversation produced an empty results list, which is when no node
\* contributed a query or a citation; then success = TRUE with no results and
\* zero totals; every failure outcome has success = FALSE.
C10_NoSearchQueries ==
    pc = "done" =>
        /\ result.error = "NO_SEARCH_QUERIES" <=> ParsedNothing
        /\ ParsedNothing <=> (accessToken # Null /\ Returned /\ queryResults.groups = <<>>)
        /\ result.error = "NO_SEARCH_QUERIES" => EmptyReport(result)
        /\ result.error \in FailureKinds <=> ~result.success
        /\ result.success => result.error \in {"", "NO_SEARCH_QUERIES"}

\* a conversation of a user message and an assistant message without any
\* query or citation field
C10_Witness ==
    /\ pc = "done"
    /\ Len(FetchedNodes) = 2
    /\ \A i \in Indexes(FetchedNodes) : Truthy(Get(FetchedNodes[i], "message"))
    /\ result.error = "NO_SEARCH_QUERIES"
    /\ EmptyReport(result)

\* what extract() reports for a session fetch that settled with r
SessionOutcome(r) ==
    IF fetchAccessToken(r).ok THEN ""
    ELSE IF fetchAccessToken(r).error = "NOT_LOGGED_IN" THEN "NOT_LOGGED_IN"
    ELSE "AUTH_FAILED"

\* the conversation fetch failed: the token was obtained and no document came
ConversationFetchFailed ==
    pc = "done" /\ accessToken # Null /\ conversationData = Undef

\* the fetched document's graph is absent or malformed at the top level
TopLevelMalformed ==
    /\ conversationData # Undef
    /\ \/ conversationData.t # "obj"
       \/ FetchedMapping.t # "obj"

\* C11 - fetch failures keep their own error kinds: not-authenticated is
\* NOT_LOGGED_IN, any other session failure AUTH_FAILED, 401/403 on the
\* conversation fetch TOKEN_EXPIRED, 429 RATE_LIMITED; EXTRACTION_FAILED is
\* reported only for a fetched document whose graph is absent or malformed at
\* the top level, never for a failure of a fetch (a 500 response included).
C11_FetchErrorKinds ==
    /\ \A r \in SessionResponses :
           /\ (~r.rejected /\ r.status \in {401, 403}) => SessionOutcome(r) = "NOT_LOGGED_IN"
           /\ (r.rejected \/ r.status = 500) => SessionOutcome(r) = "AUTH_FAILED"
    /\ \A r \in ConversationFailures :
           /\ (~r.rejected /\ r.status \in {401, 403})
                  => ConversationFailure(fetchConversation(r).error).error = "TOKEN_EXPIRED"
           /\ (~r.rejected /\ r.status = 429)
                  => ConversationFailure(fetchConversation(r).error).error = "RATE_LIMITED"
    /\ ConversationFetchFailed => result.error # "EXTRACTION_FAILED"
    /\ (pc = "done" /\ result.error = "EXTRACTION_FAILED") => TopLevelMalformed

\* the node yields a query or a citation
YieldsFindings(node) ==
    \/ NodeFindings(Get(node, "message")).shadowStrings # <<>>
    \/ NodeFindings(Get(node, "message")).visibleStrings # <<>>
    \/ NodeFindings(Get(node, "message")).citations # <<>>

\* the nodes of the fetched document that have a message and yield findings
FindingIndexes ==
    {i \in Indexes(FetchedNodes) :
        Truthy(Get(FetchedNodes[i], "message")) /\ YieldsFindings(FetchedNodes[i])}

\* C12 - no empty PromptGroup: every PromptGroup of the results list has a
\* shadow query or a citation; a bucket exists only with a query string or a
\* citation in it, every bucket gives a PromptGroup, and prompt resolution
\* has run exactly for the nodes that yield a query or a citation.
C12_NoEmptyGroup ==
    Returned =>
        /\ \A ri \in Indexes(queryResults.results) :
               \/ Len(queryResults.results[ri].shadowQueries) > 0
               \/ Len(queryResults.results[ri].citations) > 0
        /\ \A gi \in Indexes(queryResults.groups) :
               \/ queryResults.groups[gi].shadowStrings # <<>>
               \/ queryResults.groups[gi].visibleStrings # <<>>
               \/ queryResults.groups[gi].citations # <<>>
        /\ Len(queryResults.results) = Len(queryResults.groups)
        /\ {queryResults.walks[wi].node : wi \in Indexes(queryResults.walks)} = FindingIndexes
        /\ Len(queryResults.walks) = Cardinality(FindingIndexes)

\* four messages of which only the last yields anything: one walk, one group
C12_Witness ==
    /\ Returned
    /\ Len(FetchedNodes) = 4
    /\ \A i \in Indexes(FetchedNodes) : Truthy(Get(FetchedNodes[i], "message"))
    /\ FindingIndexes = {4}
    /\ Len(queryResults.walks) = 1
    /\ queryResults.walks[1].node = 4
    /\ Len(queryResults.results) = 1

\* the prompts the walks resolved to, in scan order
ResolvedPrompts == [wi \in Indexes(queryResults.walks) |-> queryResults.walks[wi].walk.prompt]

\* seq without the later occurrences of its entries
RECURSIVE FirstOccurrences(_)
FirstOccurrences(seq) ==
    IF seq = <<>> THEN <<>>
    ELSE <<Head(seq)>> \o SelectSeq(FirstOccurrences(Tail(seq)), LAMBDA x : x # Head(seq))

\* the walks that resolved to prompt, in scan order
WalksTo(prompt) == SelectSeq(queryResults.walks, LAMBDA e : e.walk.prompt = prompt)

\* what the nodes resolving to prompt yielded, in scan order
YieldOf(prompt, field) ==
    Flatten([k \in Indexes(WalksTo(prompt)) |->
                NodeFindings(Get(FetchedNodes[WalksTo(prompt)[k].node], "message"))[field]])

\* C14 - prompt groups are keyed and ordered by resolved prompt: the results
\* list has exactly one PromptGroup per distinct resolved prompt text that
\* had findings, in the order in which the first node resolving to each text
\* was scanned, and a group holds what all nodes resolving to its text
\* yielded (nodes resolving to the sentinel included).
C14_GroupsByPrompt ==
    Returned =>
        /\ [ri \in Indexes(queryResults.results) |-> queryResults.results[ri].userPrompt]
               = FirstOccurrences(ResolvedPrompts)
        /\ \A gi \in Indexes(queryResults.groups) :
               /\ queryResults.groups[gi].shadowStrings
                      = YieldOf(queryResults.groups[gi].userPrompt, "shadowStrings")
               /\ queryResults.groups[gi].visibleStrings
                      = YieldOf(queryResults.groups[gi].userPrompt, "visibleStrings")
               /\ queryResults.groups[gi].citations
                      = YieldOf(queryResults.groups[gi].userPrompt, "citations")

\* two unrelated nodes, one without a parent and one with a parent absent from
\* the mapping, both resolve to the sentinel and share one group
C14_Witness ==
    /\ Returned
    /\ Len(queryResults.walks) = 2
    /\ queryResults.walks[1].walk.trace = <<>>
    /\ queryResults.walks[2].walk.trace = <<Id("zz")>>
    /\ ~queryResults.walks[1].walk.found /\ ~queryResults.walks[2].walk.found
    /\ Len(queryResults.results) = 1
    /\ queryResults.results[1].userPrompt = Sentinel
    /\ Len(queryResults.groups[1].shadowStrings) = 1
    /\ Len(queryResults.groups[1].visibleStrings) = 1

\* the number of entries of field over all PromptGroups of rs
EntryCount(rs, field) ==
    Cardinality(UNION {{<<i, k>> : k \in Indexes(rs[i][field])} : i \in Indexes(rs)})

\* C15 - Report totals are sums: in every successful result of extract(),
\* totalShadowQueries is the number of shadowQueries entries over all
\* PromptGroups of the Report and totalCitations the number of citations
\* entries, the groups being the deduplicated ones parseConversation returned.
C15_TotalsAreSums ==
    (pc = "done" /\ result.success) =>
        /\ result.hasData
        /\ result.data.results = queryResults.results
        /\ result.data.totalShadowQueries = EntryCount(result.data.results, "shadowQueries")
        /\ result.data.totalCitations = EntryCount(result.data.results, "citations")

\* two groups with two queries and one query
C15_Witness ==
    /\ pc = "done"
    /\ result.success
    /\ Len(result.data.results) = 2
    /\ Len(result.data.results[1].shadowQueries) = 2
    /\ Len(result.data.results[2].shadowQueries) = 1
    /\ result.data.totalShadowQueries = 3
    /\ result.data.totalCitations = 0

\* C13 - idempotence and determinism: whenever parseConversation has been
\* called on the same document twice, whatever it was called on in between,
\* both calls ended the same way and returned the same PromptGroups, with the
\* same resolved prompts and in the same order.
C13_Deterministic ==
    \A i \in Indexes(history) : \A j \in Indexes(history) :
        history[i].data = history[j].data => history[i].parsed = history[j].parsed

\* the first and the third call got the same document, the second another
\* one, and both documents have findings
C13_Witness ==
    /\ Len(history) = 3
    /\ history[1].data = history[3].data
    /\ history[2].data # history[1].data
    /\ history[1].parsed.results # <<>>
    /\ history[2].parsed.results # <<>>
    /\ history[2].parsed.results # history[1].parsed.results

\* a call of fn has returned or raised
Called(fn) == call.fn = fn /\ call.out.done

\* v is an object exposing a sequence under key k
Exposes(v, k) == v.t = "obj" /\ k \in DOMAIN v.o /\ v.o[k].t = "arr"

\* the shape a field value is classified into
ShapeOf(v) ==
    CASE v.t \in {"undef", "null"} -> "absent"
      [] v.t = "arr" -> "flat"
      [] Exposes(v, "queries") -> "wrappedQueries"
      [] Exposes(v, "items") -> "wrappedItems"
      [] OTHER -> "unrecognized"

\* C16 - normalizeQueryField is total: it never raises, an absent value
\* gives the empty sequence, an ordered collection gives itself, an object
\* exposing a queries sequence or else an items sequence gives that inner
\* sequence, and any other value (string, number, boolean, object without
\* those sequences) gives the empty sequence.
C16_NormalizeTotal ==
    Called("normalizeQueryField") =>
        /\ ~call.out.threw
        /\ ShapeOf(call.arg) = "absent" => call.out.v = <<>>
        /\ ShapeOf(call.arg) = "flat" => call.out.v = call.arg.a
        /\ ShapeOf(call.arg) = "wrappedQueries" => call.out.v = call.arg.o["queries"].a
        /\ ShapeOf(call.arg) = "wrappedItems" => call.out.v = call.arg.o["items"].a
        /\ ShapeOf(call.arg) = "unrecognized" => call.out.v = <<>>

\* an object whose queries is no sequence and whose items is one
C16_Witness ==
    /\ Called("normalizeQueryField")
    /\ ShapeOf(call.arg) = "wrappedItems"
    /\ "queries" \in DOMAIN call.arg.o
    /\ Len(call.out.v) = 2

CandidateKeys == <<"text", "query", "q", "search_query">>

\* s after trimming when v is a string that trimming leaves non-empty
NonEmptyTrimmed(v) == IF v.t = "str" /\ Trim(v.s) # <<>> THEN <<Trim(v.s)>> ELSE <<>>

\* the candidate keys of entry whose value is non-empty after trimming
GoodKeys(entry) ==
    SelectSeq(CandidateKeys, LAMBDA k : NonEmptyTrimmed(Get(entry, k)) # <<>>)

\* the string an entry contributes when the first non-empty candidate wins
FirstNonEmpty(entry) ==
    IF entry.t = "str" THEN NonEmptyTrimmed(entry)
    ELSE IF entry.t = "obj" /\ GoodKeys(entry) # <<>>
        THEN NonEmptyTrimmed(Get(entry, GoodKeys(entry)[1]))
    ELSE <<>>

\* C17 - extractQueryStrings maps each raw entry to at most one non-empty
\* trimmed string: a string entry passes trimmed when non-empty after
\* trimming, an object entry gives the value of the first of the keys text,
\* query, q, search_query whose value is non-empty after trimming, any other
\* entry gives nothing, and the output follows the input order.
C17_FirstNonEmptyWins ==
    Called("extractQueryStrings") =>
        /\ ~call.out.threw
        /\ call.out.v = Flatten([i \in Indexes(call.arg) |-> FirstNonEmpty(call.arg[i])])

\* the candidates of the scans, in the order of the scans
ScanOrder(metadata, message) ==
    ContentReferences(metadata).c \o CiteMetadata(metadata).c \o SearchResultGroups(metadata).c
    \o ContentParts(message).c \o ContentResultCitations(message).c

\* the candidates that have a title or a url
Keyed(cands) == SelectSeq(cands, LAMBDA c : Truthy(c.url) \/ Truthy(c.title))

\* the dedup key: url if non-empty, else title
KeyTaken(c) == IF Truthy(c.url) THEN c.url ELSE c.title

\* the candidates whose key no earlier candidate has
FirstOfKey(cands) ==
    {i \in Indexes(cands) : \A j \in 1..(i - 1) : KeyTaken(cands[j]) # KeyTaken(cands[i])}

\* the k-th smallest member of a set of numbers
Kth(S, k) == CHOOSE i \in S : Cardinality({j \in S : j < i}) = k - 1

\* C18 - extractCitations merges the five sources in the order content
\* references, citation metadata (citations list, then metadata list),
\* search result groups, content parts, parsed raw result: the output is the
\* candidates with a title or a url, in that order, without those whose key
\* (url if non-empty, else title) an earlier candidate has; each entry keeps
\* the title and type of the first candidate with its key, and the keys of
\* the output are pairwise distinct.
C18_CitationMerge ==
    Called("extractCitations") =>
        /\ ~call.out.threw
        /\ Len(call.out.v)
               = Cardinality(FirstOfKey(Keyed(ScanOrder(call.arg.metadata, call.arg.message))))
        /\ \A k \in Indexes(call.out.v) :
               /\ KeyTaken(call.out.v[k])
                      = KeyTaken(Keyed(ScanOrder(call.arg.metadata, call.arg.message))
                                     [Kth(FirstOfKey(Keyed(ScanOrder(call.arg.metadata,
                                                                      call.arg.message))), k)])
               /\ call.out.v[k].type
                      = Keyed(ScanOrder(call.arg.metadata, call.arg.message))
                            [Kth(FirstOfKey(Keyed(ScanOrder(call.arg.metadata,
                                                             call.arg.message))), k)].type
               /\ call.out.v[k].title
                      = Or(Keyed(ScanOrder(call.arg.metadata, call.arg.message))
                               [Kth(FirstOfKey(Keyed(ScanOrder(call.arg.metadata,
                                                                call.arg.message))), k)].title,
                           call.out.v[k].url)
        /\ \A k \in Indexes(call.out.v) : \A m \in Indexes(call.out.v) :
               KeyTaken(call.out.v[k]) = KeyTaken(call.out.v[m]) => k = m

\* six candidates from five places, one with neither title nor url, four
\* sharing the key U: the title and type of the first of them won
C18_Witness ==
    /\ Called("extractCitations")
    /\ Len(ScanOrder(call.arg.metadata, call.arg.message)) = 6
    /\ Len(Keyed(ScanOrder(call.arg.metadata, call.arg.message))) = 5
    /\ Len(call.out.v) = 2
    /\ call.out.v[1].title = Lit("T1")
    /\ call.out.v[1].type = Lit("Citation")
    /\ call.out.v[2].url = Lit("U")
    /\ call.out.v[2].title = Lit("T2")
    /\ call.out.v[2].type = Lit("Search Result")

\* the message of the i-th node of the fetched document and its metadata
MessageAt(i) == Get(FetchedNodes[i], "message")
MetadataAt(i) == MetadataOf(MessageAt(i))

\* the strings the two primary metadata fields and the fallback field hold
PrimaryHidden(i) == QueryField(Get(MetadataAt(i), "search_model_queries")).v
PrimaryVisible(i) == QueryField(Get(MetadataAt(i), "search_queries")).v
FallbackStrings(i) == QueryField(Get(MetadataAt(i), "args")).v

\* both primary fields yielded nothing
PrimariesEmpty(i) == PrimaryHidden(i) = <<>> /\ PrimaryVisible(i) = <<>>

\* the nodes with a message whose content yields no query strings
MetadataOnly ==
    {i \in Indexes(FetchedNodes) :
        /\ Truthy(MessageAt(i))
        /\ PartQueries(MessageAt(i)).shadow = <<>> /\ PartQueries(MessageAt(i)).visible = <<>>
        /\ ResultQueries(MessageAt(i)).shadow = <<>>
        /\ ResultQueries(MessageAt(i)).visible = <<>>}

\* the texts, case folded, of the entries of the first PromptGroup with the
\* given flag
Reported(hidden) ==
    {CaseFold(queryResults.results[1].shadowQueries[k].text) :
        k \in {n \in Indexes(queryResults.results[1].shadowQueries) :
                  queryResults.results[1].shadowQueries[n].hidden = hidden}}

\* C19 - metadata fallback gating: metadata.args contributes query strings
\* of a node only when search_model_queries and search_queries both yielded
\* no string for it, and what it contributes is hidden-sourced; when a
\* primary field yielded a string, metadata.args contributes nothing.
C19_ArgsFallback ==
    Returned =>
        \A i \in MetadataOnly :
            /\ NodeFindings(MessageAt(i)).visibleStrings = PrimaryVisible(i)
            /\ PrimariesEmpty(i) => NodeFindings(MessageAt(i)).shadowStrings = FallbackStrings(i)
            /\ ~PrimariesEmpty(i) => NodeFindings(MessageAt(i)).shadowStrings = PrimaryHidden(i)
            /\ (Len(queryResults.walks) = 1 /\ queryResults.walks[1].node = i) =>
                   /\ PrimariesEmpty(i) =>
                          /\ Reported(TRUE)
                                 = {CaseFold(FallbackStrings(i)[k]) :
                                       k \in Indexes(FallbackStrings(i))}
                          /\ Reported(FALSE) = {}
                   /\ ~PrimariesEmpty(i) =>
                          Reported(TRUE)
                              = {CaseFold(PrimaryHidden(i)[k]) : k \in Indexes(PrimaryHidden(i))}

\* both primary fields hold only whitespace and args wraps two strings: both
\* are reported, hidden
C19_Witness ==
    /\ Returned
    /\ Len(FetchedNodes) = 2
    /\ Get(MetadataAt(2), "search_model_queries") = Strings(<<<<" ">>>>)
    /\ Get(MetadataAt(2), "search_queries") = Strings(<<<<" ">>>>)
    /\ Get(MetadataAt(2), "args") = Obj([queries |-> Strings(<<<<"r">>, <<"Q">>>>)])
    /\ Len(queryResults.results) = 1
    /\ queryResults.results[1].shadowQueries
           = <<[text |-> <<"r">>, hidden |-> TRUE], [text |-> <<"Q">>, hidden |-> TRUE]>>

\* the parsed raw result string of the i-th node's content, whatever its
\* content-type tag
RawResult(i) == JSONParse(OptGet(Get(MessageAt(i), "content"), "result"))

\* the nodes whose content has a raw result string that parses as structured data
WithParsedResult ==
    {i \in Indexes(FetchedNodes) :
        /\ Truthy(MessageAt(i))
        /\ OptGet(Get(MessageAt(i), "content"), "result").t = "str"
        /\ RawResult(i).ok
        /\ RawResult(i).v.t = "obj"}

Range(seq) == {seq[k] : k \in Indexes(seq)}

\* C20 - raw-result query probing: for every node whose content has a raw
\* result string that parses as structured data, whatever the content-type
\* tag of the message, the strings of the parsed value's search_model_queries
\* are among the node's hidden-sourced strings and those of its
\* search_queries among its visible-sourced strings.
C20_RawResultProbing ==
    Returned =>
        \A i \in WithParsedResult :
            /\ Range(QueryField(Get(RawResult(i).v, "search_model_queries")).v)
                   \subseteq Range(NodeFindings(MessageAt(i)).shadowStrings)
            /\ Range(QueryField(Get(RawResult(i).v, "search_queries")).v)
                   \subseteq Range(NodeFindings(MessageAt(i)).visibleStrings)

\* the model identifier of the i-th node of the fetched document:
\* metadata.model_slug, else the document's model, else "unknown"
ModelIdAt(i) ==
    IF Truthy(Get(MetadataAt(i), "model_slug")) THEN Get(MetadataAt(i), "model_slug")
    ELSE IF Truthy(Get(conversationData, "model")) THEN Get(conversationData, "model")
    ELSE Lit("unknown")

\* the indexes of the nodes that contributed to prompt
Contributors(prompt) ==
    {queryResults.walks[wi].node :
        wi \in {k \in Indexes(queryResults.walks) : queryResults.walks[k].walk.prompt = prompt}}

\* the first node that contributed to prompt
FirstContributor(prompt) ==
    CHOOSE i \in Contributors(prompt) : \A j \in Contributors(prompt) : i <= j

\* C26 - a bucket's model is fixed at creation: the model of every
\* PromptGroup is the model identifier of the first node that contributed to
\* its prompt (metadata.model_slug, else the document's model, else
\* "unknown"), whatever the model identifiers of the later contributing
\* nodes, whose queries and citations are in the group all the same.
C26_ModelFixedAtCreation ==
    Returned =>
        \A ri \in Indexes(queryResults.results) :
            /\ queryResults.results[ri].model
                   = ModelIdAt(FirstContributor(queryResults.results[ri].userPrompt))
            /\ queryResults.groups[ri].model = queryResults.results[ri].model
            /\ queryResults.groups[ri].visibleStrings
                   = YieldOf(queryResults.results[ri].userPrompt, "visibleStrings")

\* two messages under one prompt, of models m1 and then m2: one group, of
\* model m1, with the queries of both
C26_Witness ==
    /\ Returned
    /\ Len(queryResults.walks) = 2
    /\ Get(MetadataAt(queryResults.walks[1].node), "model_slug") = Lit("m1")
    /\ Get(MetadataAt(queryResults.walks[2].node), "model_slug") = Lit("m2")
    /\ Get(conversationData, "model") = Lit("d")
    /\ Len(queryResults.results) = 1
    /\ queryResults.results[1].model = Lit("m1")
    /\ Len(queryResults.results[1].shadowQueries) = 2

\* updateBadge has just run for tab t, which holds a visibility analysis
BadgeUpdatedWithAnalysis(t) ==
    background.updated = t /\ background.analysisResults[t] # Undef

C23_CacheMatchesUrl ==
    \A t \in Tabs :
        (background.url[t] # Undef /\ background.shadowQueryResults[t] # Undef) =>
            background.shadowQueryResults[t].conversationId
                = ConversationIdOf(background.url[t])

\* C24: once onRemoved has been handled for a tab, neither store holds an
\* entry for it, whatever messages the tab sent before it closed.
C24_NoEntryAfterRemoved ==
    \A t \in Tabs :
        background.url[t] = Undef =>
            /\ background.analysisResults[t] = Undef
            /\ background.shadowQueryResults[t] = Undef

\* the conversation id of the page request i was made on
OwnId(i) == getConversationIdFromURL(requests[i].pathname)

\* the prompts, the queries and the citation urls a Report shows
ReportPrompts(data) == {data.results[k].userPrompt : k \in 1..Len(data.results)}
ReportQueries(data) ==
    UNION {{data.results[k].shadowQueries[j].text :
                j \in 1..Len(data.results[k].shadowQueries)} : k \in 1..Len(data.results)}
ReportUrls(data) ==
    UNION {{data.results[k].citations[j].url :
                j \in 1..Len(data.results[k].citations)} : k \in 1..Len(data.results)}

\* the Report data shares no prompt, query or citation url with a document of
\* conversation id
SharesNothing(data, id) ==
    \A other \in ServerReports(id) :
        /\ ReportPrompts(data) \cap ReportPrompts(other) = {}
        /\ ReportQueries(data) \cap ReportQueries(other) = {}
        /\ ReportUrls(data) \cap ReportUrls(other) = {}

\* C22: when extractions run side by side, each request is answered with the
\* outcome of its own extraction: the Report carries the conversation id of
\* the request's own page and is the Report of a document fetched for that
\* id, and holds no prompt, query or citation of another conversation.
C22_RequestsIsolated ==
    \A i \in 1..Len(requests) :
        (requests[i].pc \in {"resolved", "answered"} /\ requests[i].result.hasData) =>
            /\ requests[i].fetched = OwnId(i)
            /\ requests[i].result.data.conversationId = OwnId(i)
            /\ \E d \in ServerDocs(OwnId(i)) :
                   requests[i].result = Report(OwnId(i), parseConversation(d))
            /\ \A j \in 1..Len(requests) :
                   OwnId(j) \notin {Null, OwnId(i)} =>
                       SharesNothing(requests[i].result.data, OwnId(j))

\* the second request, made on another conversation while the first one was
\* under way, has overtaken it: it has its Report, with results, while the
\* first still waits for its document
C22_Witness ==
    /\ Len(requests) >= 2
    /\ OwnId(1) # OwnId(2)
    /\ requests[1].pc = "awaitConversation"
    /\ requests[2].pc \in {"resolved", "answered"}
    /\ Len(requests[2].result.data.results) > 0

\* the types of what request i has sent, in order
SentTypes(i) == [k \in 1..Len(requests[i].sent) |-> requests[i].sent[k].type]

\* request i has been answered once, with the outcome of its extraction, and
\* has reported to the service worker, before answering, iff the outcome is a
\* success that carries data
AnsweredOnce(i) ==
    LET r == requests[i].result
        sent == requests[i].sent
    IN IF r.success /\ r.hasData
       THEN /\ SentTypes(i) = <<"SHADOW_QUERIES_COMPLETE", "sendResponse">>
            /\ sent[1].payload = r.data
            /\ sent[2].payload = r
       ELSE /\ SentTypes(i) = <<"sendResponse">>
            /\ sent[1].payload = r

InitViewEnds ==
    /\ popup.pcInit # "done"
    /\ popup'.pcInit = "done"

\* the cached result the service worker holds for the popup's tab, if it is
\* one of the conversation the tab's url names
CurrentCached ==
    LET cached == background.shadowQueryResults[PopupTab]
    IN IF OnChatGPT(popup'.url) /\ cached # Undef
          /\ cached.conversationId = ConversationIdOf(popup'.url)
       THEN cached ELSE Undef

AnalysisAnswered ==
    /\ popup.pcAnalyze = "awaitExtract"
    /\ popup'.pcAnalyze = "idle"
    /\ ~popup'.response.threw

\* C27: after a successful response the popup renders the result list
\* whenever the Report's results are non-empty, also for a Report with
\* citations and no shadow query, and shows the no-searches guidance only when
\* the results are empty; a failure response is shown as an error.
C27_ListWheneverResults ==
    [][AnalysisAnswered =>
          LET r == popup'.response.result
          IN IF r.success /\ r.hasData
             THEN IF Len(r.data.results) > 0
                  THEN popup'.sq.results /\ popup'.shadowQueryData = r.data
                  ELSE popup'.sq.error /\ popup'.message = "guidance"
             ELSE popup'.sq.error /\ popup'.message = "error"]_vars

\* an extraction of the popup is pending
ExtractionPending == popup.pcAnalyze = "awaitExtract"

\* C29: the Analyze button is disabled exactly while an extraction is
\* pending, the loading indicator is shown only meanwhile, and every pending
\* extraction ends, whatever its outcome (results, guidance text, failure,
\* the send throwing), with the button enabled and the indicator hidden.
C29_ButtonReenabled ==
    /\ [](popup.disabled <=> ExtractionPending)
    /\ [](popup.sq.loading => ExtractionPending)
    /\ ExtractionPending ~> (~ExtractionPending /\ ~popup.disabled /\ ~popup.sq.loading)

\* the send of the last click threw and the button is enabled again
C29_Witness ==
    /\ popup.response # Undef
    /\ popup.response.threw
    /\ ~popup.disabled
    /\ ~popup.sq.loading
    /\ popup.sq.error

\* loadResults has been called
Polling == popup.pcLoad # "idle"

====
